---- MODULE Spec2Model ----
(***************************************************************************)
(* Model of the portfolio dashboard page src/pages/portfolio.py: main()    *)
(* and the aggregation functions it calls.                                 *)
(*                                                                         *)
(* Numbers.  Python floats are modelled as exact rationals <<n, d>> in     *)
(* lowest terms with d > 0; None is the empty tuple <<>>.  round(x, 2) is  *)
(* round-half-to-even on the exact value.  Binary representation error of  *)
(* IEEE doubles (about 1e-16 relative) is not modelled.                    *)
(*                                                                         *)
(* Dicts.  A Python dict is a sequence of <<key, value>> pairs in          *)
(* insertion order; a lookup entry (one row of the reference table) is a   *)
(* function from column names to values whose DOMAIN may lack columns.     *)
(***************************************************************************)
EXTENDS Integers, Sequences, FiniteSets, TLC

(* ------------------------------ bounds -------------------------------- *)
\* at most MaxFunds funds are selected in the multiselect
MaxFunds == 3
\* each entered amount is a whole number of dollars in 0..MaxAmount
MaxAmount == 2
\* the aggregation functions alone are applied to maps of at most MaxCoreFunds funds
MaxCoreFunds == 2

(* --------------------------- exact numbers ---------------------------- *)
Abs(n) == IF n < 0 THEN -n ELSE n

RECURSIVE GCD(_, _)
GCD(a, b) == IF b = 0 THEN a ELSE GCD(b, a % b)

\* the rational n/d (d # 0) in lowest terms with a positive denominator
Rat(n, d) ==
  LET s == IF d < 0 THEN -1 ELSE 1
      g == GCD(Abs(n), Abs(d))
  IN  <<(s * n) \div g, (s * d) \div g>>

Zero == <<0, 1>>
None == <<>>
IntR(k) == <<k, 1>>
\* The outcome of a division by zero: Python raises ZeroDivisionError and the call
\* ends without a result.  It is carried as a value no number equals, and every
\* operation on it yields it again.
ZeroDivisionError == <<0, 0>>
Raised(x) == x[2] = 0
\* operands are cancelled before they are multiplied, to keep the integers small
RAdd(x, y) ==
  IF Raised(x) \/ Raised(y) THEN ZeroDivisionError
  ELSE LET g == GCD(x[2], y[2])
       IN  Rat(x[1] * (y[2] \div g) + y[1] * (x[2] \div g), (x[2] \div g) * y[2])
RMul(x, y) ==
  IF Raised(x) \/ Raised(y) THEN ZeroDivisionError
  ELSE LET a == Rat(x[1], y[2])
           b == Rat(y[1], x[2])
       IN  <<a[1] * b[1], a[2] * b[2]>>
RDiv(x, y) ==
  IF Raised(x) \/ Raised(y) \/ y[1] = 0 THEN ZeroDivisionError
  ELSE RMul(x, Rat(y[2], y[1]))
RSub(x, y) == RAdd(x, <<-y[1], y[2]>>)
RLe(x, y) == x[1] * y[2] <= y[1] * x[2]
RLt(x, y) == x[1] * y[2] < y[1] * x[2]
RAbs(x) == <<Abs(x[1]), x[2]>>
Hundred == IntR(100)

\* Python's round(x, 2): the nearest multiple of 1/100, ties to the even one
Round2(x) ==
  IF Raised(x) THEN ZeroDivisionError
  ELSE LET m == x[1] * 100
           q == m \div x[2]
           r == m % x[2]
           h == IF 2 * r < x[2] THEN q
                ELSE IF 2 * r > x[2] THEN q + 1
                ELSE IF q % 2 = 0 THEN q ELSE q + 1
       IN  Rat(h, 100)

RECURSIVE RSum(_)
RSum(s) == IF s = <<>> THEN Zero ELSE RAdd(RSum(SubSeq(s, 1, Len(s) - 1)), s[Len(s)])

RECURSIVE Concat(_)
Concat(ss) == IF ss = <<>> THEN <<>> ELSE Concat(SubSeq(ss, 1, Len(ss) - 1)) \o ss[Len(ss)]

(* ------------------------ insertion-ordered dict ---------------------- *)
Keys(d) == [i \in DOMAIN d |-> d[i][1]]
Values(d) == [i \in DOMAIN d |-> d[i][2]]
Has(d, k) == \E i \in DOMAIN d : d[i][1] = k
At(d, k) == d[CHOOSE i \in DOMAIN d : d[i][1] = k][2]
\* d.get(k, default)
GetOr(d, k, default) == IF Has(d, k) THEN At(d, k) ELSE default
\* mutant: an assignment to an existing key moves the key to the end
Put_MoveToEnd(d, k, v) ==
  Append(SelectSeq(d, LAMBDA e : e[1] # k), <<k, v>>)

\* d[k] = v: an existing key keeps its position, a new key goes last
Put(d, k, v) ==
  IF Has(d, k) THEN [i \in DOMAIN d |-> IF d[i][1] = k THEN <<k, v>> ELSE d[i]]
  ELSE Append(d, <<k, v>>)

(* ------------------------- reference table ---------------------------- *)
\* asset_classifications.get(asset, {}): the fund's row, or the empty dict
Entry(asset_classifications, asset) ==
  IF asset \in DOMAIN asset_classifications THEN asset_classifications[asset] ELSE <<>>

\* asset_classifications.get(asset, {}).get(field, default)
Attr(asset_classifications, asset, field, default) ==
  LET e == Entry(asset_classifications, asset)
  IN  IF field \in DOMAIN e THEN e[field] ELSE default

\* the names load_fund_names offers in the multiselect
Funds == {"A", "B", "C", "D"}

\* Reference tables read from input.xlsx.  The file is not part of the
\* repository; these two tables cover the shapes a table can have: complete
\* rows, a fund with no row (C in Lookup1), two funds in one sub-asset class with
\* different labels and metrics (A and B in Lookup2), blank labels and missing
\* columns (C and D in Lookup2), an unmapped liquidity, a cash fund.
Lookup1 ==
  ("A" :> [Classification |-> "Traditional", AssetClass |-> "Equity", SubAssetClass |-> "US",
           Liquidity |-> "Liquid", Instrument |-> "A Fund", PublicPrivate |-> "Public",
           IncomeGrowth |-> "Growth", Yield |-> IntR(2), Return |-> IntR(8),
           Volatility |-> IntR(15)]) @@
  ("B" :> [Classification |-> "Alternative", AssetClass |-> "PE", SubAssetClass |-> "Buyout",
           Liquidity |-> "Illiquid", Instrument |-> "B Fund", PublicPrivate |-> "Private",
           IncomeGrowth |-> "Growth", Yield |-> IntR(0), Return |-> IntR(12),
           Volatility |-> IntR(25)]) @@
  ("D" :> [Classification |-> "Traditional", AssetClass |-> "Cash & Equivalent",
           SubAssetClass |-> "Money Market", Liquidity |-> "Liquid", Instrument |-> "D Fund",
           PublicPrivate |-> "Public", IncomeGrowth |-> "Income", Yield |-> IntR(4),
           Return |-> IntR(4), Volatility |-> IntR(1)])

Lookup2 ==
  ("A" :> [Classification |-> "Traditional", AssetClass |-> "Equity", SubAssetClass |-> "US",
           Liquidity |-> "Liquid", Instrument |-> "Shared", PublicPrivate |-> "Public",
           IncomeGrowth |-> "Growth", Yield |-> IntR(2), Return |-> IntR(8),
           Volatility |-> IntR(15)]) @@
  ("B" :> [Classification |-> "Traditional", AssetClass |-> "Equity", SubAssetClass |-> "US",
           Liquidity |-> "Semi-liquid", Instrument |-> "Shared", PublicPrivate |-> "Private",
           IncomeGrowth |-> "Income", Yield |-> Rat(33, 8), Return |-> IntR(6),
           Volatility |-> IntR(10)]) @@
  ("C" :> [Classification |-> "", AssetClass |-> "", SubAssetClass |-> "Misc",
           Liquidity |-> "Daily", IncomeGrowth |-> "Growth"]) @@
  ("D" :> [AssetClass |-> "Credit", Liquidity |-> "Liquid", IncomeGrowth |-> "Growth"])

Lookups == {Lookup1, Lookup2}

(* ---------------------- create_sunburst_table ------------------------- *)
\* mutant: the percentage is not divided by 100
AllocationValue_NotDivided(alloc_pct, total_portfolio_value) ==
  RMul(alloc_pct, total_portfolio_value)

\* allocation_value = (alloc_pct / 100.0) * total_portfolio_value
AllocationValue(alloc_pct, total_portfolio_value) ==
  RMul(RDiv(alloc_pct, Hundred), total_portfolio_value)

\* mutant: a fund without a Liquidity value gets "" instead of "Illiquid"
SunburstInsert_BlankLiquidity(classification_totals, asset, alloc_pct, total_portfolio_value, asset_classifications) ==
  LET classification == Attr(asset_classifications, asset, "Classification", "Alternative")
      asset_class == Attr(asset_classifications, asset, "AssetClass", "")
      sub_asset_class == Attr(asset_classifications, asset, "SubAssetClass", "")
      liquidity == Attr(asset_classifications, asset, "Liquidity", "")
      instrument == Attr(asset_classifications, asset, "Instrument", asset)
      item == [Instrument |-> instrument, Liquidity |-> liquidity, AllocationPct |-> alloc_pct,
               AllocationDollar |-> AllocationValue(alloc_pct, total_portfolio_value)]
      asset_classes == GetOr(classification_totals, classification, <<>>)
      sub_classes == GetOr(asset_classes, asset_class, <<>>)
      instruments == GetOr(sub_classes, sub_asset_class, <<>>)
  IN  Put(classification_totals, classification,
          Put(asset_classes, asset_class,
              Put(sub_classes, sub_asset_class, Append(instruments, item))))

\* lines 25-36: one fund's instrument record appended under its three labels
SunburstInsert(classification_totals, asset, alloc_pct, total_portfolio_value, asset_classifications) ==
  LET classification == Attr(asset_classifications, asset, "Classification", "Alternative")
      asset_class == Attr(asset_classifications, asset, "AssetClass", "")
      sub_asset_class == Attr(asset_classifications, asset, "SubAssetClass", "")
      liquidity == Attr(asset_classifications, asset, "Liquidity", "Illiquid")
      instrument == Attr(asset_classifications, asset, "Instrument", asset)
      item == [Instrument |-> instrument, Liquidity |-> liquidity, AllocationPct |-> alloc_pct,
               AllocationDollar |-> AllocationValue(alloc_pct, total_portfolio_value)]
      asset_classes == GetOr(classification_totals, classification, <<>>)
      sub_classes == GetOr(asset_classes, asset_class, <<>>)
      instruments == GetOr(sub_classes, sub_asset_class, <<>>)
  IN  Put(classification_totals, classification,
          Put(asset_classes, asset_class,
              Put(sub_classes, sub_asset_class, Append(instruments, item))))

\* lines 22-36: the nested dict after the loop over assets_pct.items()
RECURSIVE SunburstTotals(_, _, _)
SunburstTotals(assets_pct, total_portfolio_value, asset_classifications) ==
  IF assets_pct = <<>> THEN <<>>
  ELSE LET n == Len(assets_pct)
       IN  SunburstInsert(SunburstTotals(SubSeq(assets_pct, 1, n - 1), total_portfolio_value,
                                         asset_classifications),
                          assets_pct[n][1], assets_pct[n][2], total_portfolio_value,
                          asset_classifications)

\* mutant: only the first asset class of the classification is summed
InstrumentsBelow_FirstOnly(asset_classes) ==
  IF asset_classes = <<>> THEN <<>> ELSE Concat(Values(asset_classes[1][2]))

\* lines 44-48: every instrument below one classification
InstrumentsBelow(asset_classes) ==
  Concat([i \in DOMAIN asset_classes |-> Concat(Values(asset_classes[i][2]))])

\* line 50
SunburstClassificationRow(classification, asset_classes) ==
  LET below == InstrumentsBelow(asset_classes)
  IN  <<classification, "", "", "", "",
        Round2(RSum([i \in DOMAIN below |-> below[i].AllocationPct])),
        Round2(RSum([i \in DOMAIN below |-> below[i].AllocationDollar]))>>

\* lines 57-60
SunburstInstrumentRow(instrument_data) ==
  <<"", "", "", instrument_data.Liquidity, instrument_data.Instrument,
    instrument_data.AllocationPct, instrument_data.AllocationDollar>>

\* mutant: the instruments of a sub-asset class are merged into one row
SunburstSubClassRows_Aggregated(sub_asset_class, instruments) ==
  <<<<"", "", sub_asset_class, "", "", None, None>>,
    <<"", "", "", instruments[1].Liquidity, instruments[1].Instrument,
      RSum([i \in DOMAIN instruments |-> instruments[i].AllocationPct]),
      RSum([i \in DOMAIN instruments |-> instruments[i].AllocationDollar])>>>>

\* lines 54-60
SunburstSubClassRows(sub_asset_class, instruments) ==
  <<<<"", "", sub_asset_class, "", "", None, None>>>> \o
  [i \in DOMAIN instruments |-> SunburstInstrumentRow(instruments[i])]

\* lines 52-60
SunburstAssetClassRows(asset_class, sub_classes) ==
  <<<<"", asset_class, "", "", "", None, None>>>> \o
  Concat([i \in DOMAIN sub_classes |-> SunburstSubClassRows(sub_classes[i][1], sub_classes[i][2])])

\* lines 40-60
SunburstRows(classification_totals) ==
  Concat([c \in DOMAIN classification_totals |->
            <<SunburstClassificationRow(classification_totals[c][1], classification_totals[c][2])>> \o
            Concat([a \in DOMAIN classification_totals[c][2] |->
                      SunburstAssetClassRows(classification_totals[c][2][a][1],
                                             classification_totals[c][2][a][2])])])

SunburstColumns ==
  <<"Classification", "Asset Class", "Sub-Asset Class", "Liquidity", "Instrument/Manager",
    "Allocation (%)", "Allocation ($)">>

create_sunburst_table(assets_pct, total_portfolio_value, asset_classifications) ==
  [columns |-> SunburstColumns,
   rows |-> SunburstRows(SunburstTotals(assets_pct, total_portfolio_value, asset_classifications))]

(* ----------------------- create_summary_table ------------------------- *)
\* lines 149-160: the accumulator setdefault creates for a new sub-asset class
NewClassGroup(public_private, income_growth) ==
  [total_pct |-> Zero, total_value |-> Zero, weighted_yield |-> Zero, weighted_return |-> Zero,
   weighted_volatility |-> Zero, total_weight |-> Zero, yield_contribution |-> Zero,
   return_contribution |-> Zero, public_private |-> public_private,
   income_growth |-> income_growth]

\* mutant: the contributions are accumulated without the division by 100
Accumulate_ContributionNotScaled(class_group, alloc_pct, allocation_value, expected_yield, expected_return, expected_volatility) ==
  [class_group EXCEPT
     !.total_pct = RAdd(@, alloc_pct),
     !.total_value = RAdd(@, allocation_value),
     !.weighted_yield = RAdd(@, RMul(alloc_pct, expected_yield)),
     !.weighted_return = RAdd(@, RMul(alloc_pct, expected_return)),
     !.weighted_volatility = RAdd(@, RMul(alloc_pct, expected_volatility)),
     !.total_weight = RAdd(@, alloc_pct),
     !.yield_contribution = RAdd(@, RMul(alloc_pct, expected_yield)),
     !.return_contribution = RAdd(@, RMul(alloc_pct, expected_return))]

\* lines 163-170
Accumulate(class_group, alloc_pct, allocation_value, expected_yield, expected_return, expected_volatility) ==
  [class_group EXCEPT
     !.total_pct = RAdd(@, alloc_pct),
     !.total_value = RAdd(@, allocation_value),
     !.weighted_yield = RAdd(@, RMul(alloc_pct, expected_yield)),
     !.weighted_return = RAdd(@, RMul(alloc_pct, expected_return)),
     !.weighted_volatility = RAdd(@, RMul(alloc_pct, expected_volatility)),
     !.total_weight = RAdd(@, alloc_pct),
     !.yield_contribution = RAdd(@, RDiv(RMul(alloc_pct, expected_yield), Hundred)),
     !.return_contribution = RAdd(@, RDiv(RMul(alloc_pct, expected_return), Hundred))]

\* mutant: a fund without a Classification is filed under "" instead of "Alternative"
SummaryInsert_BlankClassification(classification_totals, asset, alloc_pct, total_portfolio_value, asset_classifications) ==
  LET classification == Attr(asset_classifications, asset, "Classification", "")
      asset_class == Attr(asset_classifications, asset, "AssetClass", "")
      sub_asset_class == Attr(asset_classifications, asset, "SubAssetClass", "")
      public_private == Attr(asset_classifications, asset, "PublicPrivate", "")
      income_growth == Attr(asset_classifications, asset, "IncomeGrowth", "")
      expected_yield == Attr(asset_classifications, asset, "Yield", Zero)
      expected_return == Attr(asset_classifications, asset, "Return", Zero)
      expected_volatility == Attr(asset_classifications, asset, "Volatility", Zero)
      allocation_value == AllocationValue(alloc_pct, total_portfolio_value)
      asset_classes == GetOr(classification_totals, classification, <<>>)
      sub_classes == GetOr(asset_classes, asset_class, <<>>)
      class_group == GetOr(sub_classes, sub_asset_class, NewClassGroup(public_private, income_growth))
  IN  Put(classification_totals, classification,
          Put(asset_classes, asset_class,
              Put(sub_classes, sub_asset_class,
                  Accumulate(class_group, alloc_pct, allocation_value, expected_yield,
                             expected_return, expected_volatility))))

\* mutant: the two labels of a sub-asset class are those of the fund added last
SummaryInsert_LastLabels(classification_totals, asset, alloc_pct, total_portfolio_value, asset_classifications) ==
  LET classification == Attr(asset_classifications, asset, "Classification", "Alternative")
      asset_class == Attr(asset_classifications, asset, "AssetClass", "")
      sub_asset_class == Attr(asset_classifications, asset, "SubAssetClass", "")
      public_private == Attr(asset_classifications, asset, "PublicPrivate", "")
      income_growth == Attr(asset_classifications, asset, "IncomeGrowth", "")
      expected_yield == Attr(asset_classifications, asset, "Yield", Zero)
      expected_return == Attr(asset_classifications, asset, "Return", Zero)
      expected_volatility == Attr(asset_classifications, asset, "Volatility", Zero)
      allocation_value == AllocationValue(alloc_pct, total_portfolio_value)
      asset_classes == GetOr(classification_totals, classification, <<>>)
      sub_classes == GetOr(asset_classes, asset_class, <<>>)
      class_group == [GetOr(sub_classes, sub_asset_class, NewClassGroup(public_private, income_growth))
                        EXCEPT !.public_private = public_private, !.income_growth = income_growth]
  IN  Put(classification_totals, classification,
          Put(asset_classes, asset_class,
              Put(sub_classes, sub_asset_class,
                  Accumulate(class_group, alloc_pct, allocation_value, expected_yield,
                             expected_return, expected_volatility))))

\* lines 135-170: one fund added to the accumulator of its sub-asset class
SummaryInsert(classification_totals, asset, alloc_pct, total_portfolio_value, asset_classifications) ==
  LET classification == Attr(asset_classifications, asset, "Classification", "Alternative")
      asset_class == Attr(asset_classifications, asset, "AssetClass", "")
      sub_asset_class == Attr(asset_classifications, asset, "SubAssetClass", "")
      public_private == Attr(asset_classifications, asset, "PublicPrivate", "")
      income_growth == Attr(asset_classifications, asset, "IncomeGrowth", "")
      expected_yield == Attr(asset_classifications, asset, "Yield", Zero)
      expected_return == Attr(asset_classifications, asset, "Return", Zero)
      expected_volatility == Attr(asset_classifications, asset, "Volatility", Zero)
      allocation_value == AllocationValue(alloc_pct, total_portfolio_value)
      asset_classes == GetOr(classification_totals, classification, <<>>)
      sub_classes == GetOr(asset_classes, asset_class, <<>>)
      class_group == GetOr(sub_classes, sub_asset_class, NewClassGroup(public_private, income_growth))
  IN  Put(classification_totals, classification,
          Put(asset_classes, asset_class,
              Put(sub_classes, sub_asset_class,
                  Accumulate(class_group, alloc_pct, allocation_value, expected_yield,
                             expected_return, expected_volatility))))

\* lines 131-170: the nested dict after the first pass
RECURSIVE SummaryTotals(_, _, _)
SummaryTotals(assets_pct, total_portfolio_value, asset_classifications) ==
  IF assets_pct = <<>> THEN <<>>
  ELSE LET n == Len(assets_pct)
       IN  SummaryInsert(SummaryTotals(SubSeq(assets_pct, 1, n - 1), total_portfolio_value,
                                       asset_classifications),
                         assets_pct[n][1], assets_pct[n][2], total_portfolio_value,
                         asset_classifications)

\* mutant: only the sub-asset classes of the last asset class are summed
GroupsBelow_LastOnly(asset_classes) ==
  IF asset_classes = <<>> THEN <<>> ELSE Values(asset_classes[Len(asset_classes)][2])

\* lines 185-186: the accumulators of every sub-asset class below one classification
GroupsBelow(asset_classes) == Concat([i \in DOMAIN asset_classes |-> Values(asset_classes[i][2])])

\* mutant: the weighted sum is divided by the weight whatever the weight is
GuardedDiv_Unguarded(x, w) == RDiv(x, w)

\* mutant: the division is skipped only when the weight is exactly 0
GuardedDiv_NonZero(x, w) == IF w # Zero THEN RDiv(x, w) ELSE Zero

\* mutant: the weighted sum is divided by 100 instead of by the node's weight
GuardedDiv_ByHundred(x, w) == IF RLt(Zero, w) THEN RDiv(x, Hundred) ELSE Zero

\* x / w if w > 0 else 0
GuardedDiv(x, w) == IF RLt(Zero, w) THEN RDiv(x, w) ELSE Zero

\* lines 175-208
SummaryClassificationRow(classification, asset_classes) ==
  LET g == GroupsBelow(asset_classes)
      classification_alloc_pct == RSum([i \in DOMAIN g |-> g[i].total_pct])
      classification_alloc_dollar == RSum([i \in DOMAIN g |-> g[i].total_value])
      classification_yield == RSum([i \in DOMAIN g |-> g[i].weighted_yield])
      classification_return == RSum([i \in DOMAIN g |-> g[i].weighted_return])
      classification_volatility == RSum([i \in DOMAIN g |-> g[i].weighted_volatility])
      classification_weight == RSum([i \in DOMAIN g |-> g[i].total_weight])
      classification_yield_contrib == RSum([i \in DOMAIN g |-> g[i].yield_contribution])
      classification_return_contrib == RSum([i \in DOMAIN g |-> g[i].return_contribution])
  IN  <<classification, "", "", "", "",
        Round2(classification_alloc_pct),
        Round2(classification_alloc_dollar),
        IF RLt(Zero, classification_weight)
          THEN Round2(RDiv(classification_yield, classification_weight)) ELSE Zero,
        Round2(IF RLt(Zero, classification_weight)
                 THEN RMul(classification_alloc_dollar,
                           RDiv(RDiv(classification_yield, classification_weight), Hundred))
                 ELSE Zero),
        IF RLt(Zero, classification_weight)
          THEN Round2(RDiv(classification_return, classification_weight)) ELSE Zero,
        Round2(IF RLt(Zero, classification_weight)
                 THEN RMul(classification_alloc_dollar,
                           RDiv(RDiv(classification_return, classification_weight), Hundred))
                 ELSE Zero),
        IF RLt(Zero, classification_weight)
          THEN Round2(RDiv(classification_volatility, classification_weight)) ELSE Zero,
        Round2(classification_yield_contrib),
        Round2(classification_return_contrib)>>

\* lines 214-232
SummarySubClassRow(sub_asset_class, totals) ==
  LET avg_yield == GuardedDiv(totals.weighted_yield, totals.total_weight)
      avg_return == GuardedDiv(totals.weighted_return, totals.total_weight)
      avg_volatility == GuardedDiv(totals.weighted_volatility, totals.total_weight)
  IN  <<"", "", sub_asset_class, totals.public_private, totals.income_growth,
        Round2(totals.total_pct),
        Round2(totals.total_value),
        Round2(avg_yield),
        Round2(RDiv(RMul(totals.total_value, avg_yield), Hundred)),
        Round2(avg_return),
        Round2(RDiv(RMul(totals.total_value, avg_return), Hundred)),
        Round2(avg_volatility),
        Round2(totals.yield_contribution),
        Round2(totals.return_contribution)>>

\* lines 211-232
SummaryAssetClassRows(asset_class, sub_classes) ==
  <<<<"", asset_class, "", "", "", None, None, None, None, None, None, None, None, None>>>> \o
  [i \in DOMAIN sub_classes |-> SummarySubClassRow(sub_classes[i][1], sub_classes[i][2])]

\* lines 174-232
SummaryRows(classification_totals) ==
  Concat([c \in DOMAIN classification_totals |->
            <<SummaryClassificationRow(classification_totals[c][1], classification_totals[c][2])>> \o
            Concat([a \in DOMAIN classification_totals[c][2] |->
                      SummaryAssetClassRows(classification_totals[c][2][a][1],
                                            classification_totals[c][2][a][2])])])

SummaryColumns ==
  <<"Classification", "Asset Class", "Sub-Asset Class", "Public vs Private", "Income/Growth",
    "Total Allocation (%)", "Total Allocation ($)", "Expected Yield (%)", "Expected Yield ($)",
    "Expected Return (%)", "Expected Return ($)", "Expected Volatility (%)",
    "Yield Contribution (%)", "Return Contribution (%)">>

create_summary_table(assets_pct, total_portfolio_value, asset_classifications) ==
  [columns |-> SummaryColumns,
   rows |-> SummaryRows(SummaryTotals(assets_pct, total_portfolio_value, asset_classifications))]

(* ------------------- create_income_growth_allocation ------------------ *)
\* mutant: the liquidity is used as it is, never shortened
LiquidityKey_Unmapped(liquidity) == liquidity

\* lines 355-359: liquidity_map.get(liquidity, liquidity)
LiquidityKey(liquidity) ==
  CASE liquidity = "Liquid" -> "Liquid"
    [] liquidity = "Semi-liquid" -> "Semi"
    [] liquidity = "Illiquid" -> "Illiquid"
    [] OTHER -> liquidity

EmptyCategory == [pct |-> Zero, value |-> Zero, sub_assets |-> <<>>]

\* mutant: the cash category is not seeded
SeededAllocationData_NoCash ==
  <<<<"Growth (Liquid)", EmptyCategory>>, <<"Growth (Semi)", EmptyCategory>>,
    <<"Growth (Illiquid)", EmptyCategory>>, <<"Income (Liquid)", EmptyCategory>>,
    <<"Income (Semi)", EmptyCategory>>, <<"Income (Illiquid)", EmptyCategory>>>>

\* lines 362-370
SeededAllocationData ==
  <<<<"Cash & Equivalent", EmptyCategory>>, <<"Growth (Liquid)", EmptyCategory>>,
    <<"Growth (Semi)", EmptyCategory>>, <<"Growth (Illiquid)", EmptyCategory>>,
    <<"Income (Liquid)", EmptyCategory>>, <<"Income (Semi)", EmptyCategory>>,
    <<"Income (Illiquid)", EmptyCategory>>>>

\* lines 384-389
Category(asset_class, income_growth, liquidity) ==
  IF asset_class = "Cash & Equivalent" THEN "Cash & Equivalent"
  ELSE income_growth \o " (" \o LiquidityKey(liquidity) \o ")"

\* lines 375-407: one fund added to its category and to its sub-asset class there
IncomeGrowthInsert(allocation_data, asset, alloc_pct, total_portfolio_value, asset_classifications) ==
  LET asset_class == Attr(asset_classifications, asset, "AssetClass", "")
      sub_asset_class == Attr(asset_classifications, asset, "SubAssetClass", "")
      income_growth == Attr(asset_classifications, asset, "IncomeGrowth", "")
      liquidity == Attr(asset_classifications, asset, "Liquidity", "")
      allocation_value == AllocationValue(alloc_pct, total_portfolio_value)
      category == Category(asset_class, income_growth, liquidity)
      data == GetOr(allocation_data, category, EmptyCategory)
      sub_data == GetOr(data.sub_assets, sub_asset_class, [pct |-> Zero, value |-> Zero])
  IN  Put(allocation_data, category,
          [pct |-> RAdd(data.pct, alloc_pct),
           value |-> RAdd(data.value, allocation_value),
           sub_assets |-> Put(data.sub_assets, sub_asset_class,
                              [pct |-> RAdd(sub_data.pct, alloc_pct),
                               value |-> RAdd(sub_data.value, allocation_value)])])

RECURSIVE create_income_growth_allocation(_, _, _)
create_income_growth_allocation(assets_pct, total_portfolio_value, asset_classifications) ==
  IF assets_pct = <<>> THEN SeededAllocationData
  ELSE LET n == Len(assets_pct)
       IN  IncomeGrowthInsert(create_income_growth_allocation(SubSeq(assets_pct, 1, n - 1),
                                                              total_portfolio_value,
                                                              asset_classifications),
                              assets_pct[n][1], assets_pct[n][2], total_portfolio_value,
                              asset_classifications)

(* --------------------- create_income_growth_table --------------------- *)
\* lines 415-423
category_order ==
  <<"Growth (Liquid)", "Growth (Semi)", "Growth (Illiquid)", "Income (Liquid)", "Income (Semi)",
    "Income (Illiquid)", "Cash & Equivalent">>

\* lines 426-440: the header row of one category and its sub-asset rows
CategoryRows(allocation_data, category) ==
  IF Has(allocation_data, category)
  THEN LET sub_assets == At(allocation_data, category).sub_assets
       IN  <<<<category, "", None, None>>>> \o
           [i \in DOMAIN sub_assets |->
              <<"", sub_assets[i][1], Round2(sub_assets[i][2].pct), Round2(sub_assets[i][2].value)>>]
  ELSE <<>>

\* lines 443-445
TotalRow(allocation_data) ==
  <<"Total", "",
    Round2(RSum([i \in DOMAIN allocation_data |-> allocation_data[i][2].pct])),
    Round2(RSum([i \in DOMAIN allocation_data |-> allocation_data[i][2].value]))>>

IncomeGrowthColumns == <<"Type", "Sub-Asset Class", "Allocation (%)", "Allocation ($)">>

create_income_growth_table(allocation_data) ==
  [columns |-> IncomeGrowthColumns,
   rows |-> Concat([c \in DOMAIN category_order |-> CategoryRows(allocation_data, category_order[c])])
            \o <<TotalRow(allocation_data)>>]

(* ----------------------- aggregate_by_attribute ----------------------- *)
\* mutant: the fund's percentage replaces the label's total instead of adding to it
AggregateInsert_Overwrite(agg, key, pct) == Put(agg, key, pct)

\* line 518: agg[key] = agg.get(key, 0) + pct
AggregateInsert(agg, key, pct) == Put(agg, key, RAdd(GetOr(agg, key, Zero), pct))

\* mutant: a fund without a value for the attribute is grouped under "" instead
\* of "Unknown"
RECURSIVE aggregate_by_attribute_BlankDefault(_, _, _, _)
aggregate_by_attribute_BlankDefault(allocations_pct, total_portfolio_value, asset_classifications, attribute) ==
  IF allocations_pct = <<>> THEN <<>>
  ELSE LET n == Len(allocations_pct)
       IN  AggregateInsert(aggregate_by_attribute_BlankDefault(SubSeq(allocations_pct, 1, n - 1),
                                                               total_portfolio_value,
                                                               asset_classifications, attribute),
                           Attr(asset_classifications, allocations_pct[n][1], attribute, ""),
                           allocations_pct[n][2])

RECURSIVE aggregate_by_attribute(_, _, _, _)
aggregate_by_attribute(allocations_pct, total_portfolio_value, asset_classifications, attribute) ==
  IF allocations_pct = <<>> THEN <<>>
  ELSE LET n == Len(allocations_pct)
       IN  AggregateInsert(aggregate_by_attribute(SubSeq(allocations_pct, 1, n - 1),
                                                  total_portfolio_value, asset_classifications,
                                                  attribute),
                           Attr(asset_classifications, allocations_pct[n][1], attribute, "Unknown"),
                           allocations_pct[n][2])

(* ------------------- which node emitted which row --------------------- *)
\* The node each row of the Detailed table is emitted for, in row order:
\* <<level, classification, asset class, sub-asset class, k>>, k the place of an
\* instrument in its sub-asset class (lines 50, 53, 55, 57).
SunburstNodes(classification_totals) ==
  Concat([c \in DOMAIN classification_totals |->
    LET cl == classification_totals[c][1]
        asset_classes == classification_totals[c][2]
    IN  <<<<"Classification", cl, "", "", 0>>>> \o
        Concat([a \in DOMAIN asset_classes |->
          LET ac == asset_classes[a][1]
              sub_classes == asset_classes[a][2]
          IN  <<<<"Asset Class", cl, ac, "", 0>>>> \o
              Concat([b \in DOMAIN sub_classes |->
                <<<<"Sub-Asset Class", cl, ac, sub_classes[b][1], 0>>>> \o
                [k \in DOMAIN sub_classes[b][2] |-> <<"Instrument", cl, ac, sub_classes[b][1], k>>]])])])

\* the same for the Summary table (lines 197, 212, 219)
SummaryNodes(classification_totals) ==
  Concat([c \in DOMAIN classification_totals |->
    LET cl == classification_totals[c][1]
        asset_classes == classification_totals[c][2]
    IN  <<<<"Classification", cl, "", "", 0>>>> \o
        Concat([a \in DOMAIN asset_classes |->
          LET ac == asset_classes[a][1]
              sub_classes == asset_classes[a][2]
          IN  <<<<"Asset Class", cl, ac, "", 0>>>> \o
              [b \in DOMAIN sub_classes |-> <<"Sub-Asset Class", cl, ac, sub_classes[b][1], 0>>]])])

(* -------------------------- plot_aggrid_table ------------------------- *)
\* the cell of `row` in the column named `col`
Cell(df_columns, row, col) == row[CHOOSE i \in DOMAIN df_columns : df_columns[i] = col]

\* mutant: only a missing value (read as the text "nan") counts as empty, a
\* blank string does not
is_empty_OnlyMissing(val) == val = "nan"

\* lines 248-249, for the label columns (strings)
is_empty(val) == val = ""

\* lines 251-269
classify_row(df_columns, row) ==
  LET is_summary_table == \E i \in DOMAIN df_columns : df_columns[i] = "Expected Yield (%)"
  IN  IF is_summary_table
      THEN IF ~is_empty(Cell(df_columns, row, "Classification")) /\ is_empty(Cell(df_columns, row, "Asset Class"))
             THEN "Classification"
           ELSE IF ~is_empty(Cell(df_columns, row, "Asset Class")) /\ is_empty(Cell(df_columns, row, "Sub-Asset Class"))
             THEN "Subheader"
           ELSE "Normal"
      ELSE IF /\ ~is_empty(Cell(df_columns, row, "Classification"))
              /\ \A col \in {"Asset Class", "Sub-Asset Class", "Instrument/Manager"} :
                   is_empty(Cell(df_columns, row, col))
             THEN "Classification"
           ELSE IF /\ ~is_empty(Cell(df_columns, row, "Asset Class"))
                   /\ \A col \in {"Sub-Asset Class", "Instrument/Manager"} :
                        is_empty(Cell(df_columns, row, col))
             THEN "Subheader"
           ELSE "Normal"

\* line 271: df["RowType"] = df.apply(classify_row, axis=1), on the caller's frame
plot_aggrid_table(df) ==
  [columns |-> Append(df.columns, "RowType"),
   rows |-> [i \in DOMAIN df.rows |-> Append(df.rows[i], classify_row(df.columns, df.rows[i]))]]

(* ------------------------------- main --------------------------------- *)
\* lines 638-644
income_classify_row(row) ==
  IF row[1] # "" /\ row[2] = "" THEN "Header"
  ELSE IF row[1] = "Total" THEN "Total"
  ELSE "Normal"

\* line 646
TagIncomeGrowthTable(df) ==
  [columns |-> Append(df.columns, "RowType"),
   rows |-> [i \in DOMAIN df.rows |-> Append(df.rows[i], income_classify_row(df.rows[i]))]]

\* df.drop(columns=[col])
DropColumn(df, col) ==
  LET keep == SelectSeq([i \in DOMAIN df.columns |-> i], LAMBDA i : df.columns[i] # col)
  IN  [columns |-> [k \in DOMAIN keep |-> df.columns[keep[k]]],
       rows |-> [r \in DOMAIN df.rows |-> [k \in DOMAIN keep |-> df.rows[r][keep[k]]]]]

\* the columns of pd.concat: every column once, in order of first appearance
RECURSIVE UnionColumns(_)
UnionColumns(cols) ==
  IF cols = <<>> THEN <<>>
  ELSE LET before == UnionColumns(SubSeq(cols, 1, Len(cols) - 1))
       IN  IF \E i \in DOMAIN before : before[i] = cols[Len(cols)] THEN before
           ELSE Append(before, cols[Len(cols)])

\* pd.concat(frames): the rows of the frames in order, a cell of a column the
\* row's frame lacks left empty
ConcatFrames(frames) ==
  LET columns == UnionColumns(Concat([f \in DOMAIN frames |-> frames[f].columns]))
      Widen(df, row) ==
        [k \in DOMAIN columns |->
           IF \E i \in DOMAIN df.columns : df.columns[i] = columns[k]
           THEN Cell(df.columns, row, columns[k]) ELSE None]
  IN  [columns |-> columns,
       rows |-> Concat([f \in DOMAIN frames |->
                          [r \in DOMAIN frames[f].rows |-> Widen(frames[f], frames[f].rows[r])]])]

\* mutant: the share of the total is not scaled to a percentage
Normalize_Share(allocations, total_portfolio_value) ==
  [i \in DOMAIN allocations |->
     <<allocations[i][1], RDiv(allocations[i][2], total_portfolio_value)>>]

\* lines 586-589
Normalize(allocations, total_portfolio_value) ==
  [i \in DOMAIN allocations |->
     <<allocations[i][1], RMul(RDiv(allocations[i][2], total_portfolio_value), Hundred)>>]

\* mutant: a total of 0 passes the check
TotalIsPositive_NonNegative(total_portfolio_value) == RLe(Zero, total_portfolio_value)

\* line 585
TotalIsPositive(total_portfolio_value) == RLt(Zero, total_portfolio_value)

VARIABLES
  pc,                     \* where main is
  selected_funds,         \* the multiselect's value
  allocations,            \* fund -> entered amount, in selection order
  total_portfolio_value,
  allocations_pct,        \* fund -> percentage, in selection order
  asset_classifications,  \* the reference table
  hierarchical_df,        \* the Detailed table
  summary_df,             \* the Summary table
  allocation_data,        \* the income/growth x liquidity categories
  income_growth_agg,
  liquidity_agg,
  income_growth_table,
  csv,                    \* the exported report
  message,                \* the st.warning / st.info shown, if any
  assets,                 \* percent-mode page: st.session_state.assets
  event,                  \* percent-mode page: the button that started the latest run
  asset_name,             \* percent-mode page: the form's selectbox
  allocation,             \* percent-mode page: the form's number_input
  asset_to_remove,        \* percent-mode page: the removal selectbox
  total_warning,          \* percent-mode page: the st.warning of the latest run
  classification_charts,  \* percent-mode page: what create_classification_charts returned
  sunburst_chart          \* percent-mode page: the frame create_sunburst_chart plots

vars ==
  <<pc, selected_funds, allocations, total_portfolio_value, allocations_pct,
    asset_classifications, hierarchical_df, summary_df, allocation_data, income_growth_agg,
    liquidity_agg, income_growth_table, csv, message, assets, event, asset_name, allocation,
    asset_to_remove, total_warning, classification_charts, sunburst_chart>>

\* the variables of src/pages/portfolio.py's main
portfolio_vars ==
  <<pc, selected_funds, allocations, total_portfolio_value, allocations_pct,
    asset_classifications, hierarchical_df, summary_df, allocation_data, income_growth_agg,
    liquidity_agg, income_growth_table, csv, message>>

\* the variables of src/portfolio_classification.py's main
page_vars ==
  <<assets, event, asset_name, allocation, asset_to_remove, total_warning,
    classification_charts, sunburst_chart>>

\* src/portfolio_classification.py lines 360-361: a new session, nothing run yet
InitPage ==
  /\ assets = <<>>
  /\ event = ""
  /\ asset_name = ""
  /\ allocation = Zero
  /\ asset_to_remove = "None"
  /\ total_warning = FALSE
  /\ classification_charts = None
  /\ sunburst_chart = None

Init ==
  /\ pc = "start"
  /\ selected_funds = <<>>
  /\ allocations = None
  /\ total_portfolio_value = None
  /\ allocations_pct = None
  /\ asset_classifications = None
  /\ hierarchical_df = None
  /\ summary_df = None
  /\ allocation_data = None
  /\ income_growth_agg = None
  /\ liquidity_agg = None
  /\ income_growth_table = None
  /\ csv = None
  /\ message = ""
  /\ InitPage

\* the orders in which up to MaxFunds distinct funds can be selected
Selections ==
  UNION {{s \in [1..k -> Funds] : \A i, j \in 1..k : s[i] = s[j] => i = j} : k \in 0..MaxFunds}

\* lines 566-569, 739-740
SelectFunds ==
  /\ pc = "start"
  /\ \E s \in Selections :
       /\ selected_funds' = s
       /\ IF s # <<>>
          THEN pc' = "selected" /\ message' = message
          ELSE pc' = "done" /\ message' = "Please select funds to begin portfolio construction"
  /\ UNCHANGED <<allocations, total_portfolio_value, allocations_pct, asset_classifications,
                 hierarchical_df, summary_df, allocation_data, income_growth_agg, liquidity_agg,
                 income_growth_table, csv>>
  /\ UNCHANGED page_vars

\* lines 570-585, 737-738
EnterAllocations ==
  /\ pc = "selected"
  /\ \E amounts \in [DOMAIN selected_funds -> 0..MaxAmount] :
       /\ allocations' = [i \in DOMAIN selected_funds |-> <<selected_funds[i], IntR(amounts[i])>>]
       /\ total_portfolio_value' = RSum([i \in DOMAIN selected_funds |-> IntR(amounts[i])])
  /\ IF TotalIsPositive(total_portfolio_value')
     THEN pc' = "normalize" /\ message' = message
     ELSE pc' = "done" /\ message' = "Total allocation amount must be greater than $0"
  /\ UNCHANGED <<selected_funds, allocations_pct, asset_classifications, hierarchical_df,
                 summary_df, allocation_data, income_growth_agg, liquidity_agg,
                 income_growth_table, csv>>
  /\ UNCHANGED page_vars

\* lines 586-589
NormalizeAllocations ==
  /\ pc = "normalize"
  /\ allocations_pct' = Normalize(allocations, total_portfolio_value)
  /\ pc' = "load"
  /\ UNCHANGED <<selected_funds, allocations, total_portfolio_value, asset_classifications,
                 hierarchical_df, summary_df, allocation_data, income_growth_agg, liquidity_agg,
                 income_growth_table, csv, message>>
  /\ UNCHANGED page_vars

\* line 591
LoadClassifications ==
  /\ pc = "load"
  /\ asset_classifications' \in Lookups
  /\ pc' = "detailed"
  /\ UNCHANGED <<selected_funds, allocations, total_portfolio_value, allocations_pct,
                 hierarchical_df, summary_df, allocation_data, income_growth_agg, liquidity_agg,
                 income_growth_table, csv, message>>
  /\ UNCHANGED page_vars

\* lines 594-600
DetailedBreakdown ==
  /\ pc = "detailed"
  /\ hierarchical_df' = plot_aggrid_table(create_sunburst_table(allocations_pct,
                                                                total_portfolio_value,
                                                                asset_classifications))
  /\ pc' = "summary"
  /\ UNCHANGED <<selected_funds, allocations, total_portfolio_value, allocations_pct,
                 asset_classifications, summary_df, allocation_data, income_growth_agg,
                 liquidity_agg, income_growth_table, csv, message>>
  /\ UNCHANGED page_vars

\* mutant: the lookup is read with setdefault(asset, {}), which leaves an empty
\* row in the caller's table for every fund the table lacks
SummarizedView_SetDefault ==
  /\ pc = "summary"
  /\ summary_df' = plot_aggrid_table(create_summary_table(allocations_pct, total_portfolio_value,
                                                          asset_classifications))
  /\ asset_classifications' =
       [a \in DOMAIN asset_classifications \cup {allocations_pct[i][1] : i \in DOMAIN allocations_pct} |->
          Entry(asset_classifications, a)]
  /\ pc' = "income_growth"
  /\ UNCHANGED <<selected_funds, allocations, total_portfolio_value, allocations_pct,
                 hierarchical_df, allocation_data, income_growth_agg,
                 liquidity_agg, income_growth_table, csv, message>>
  /\ UNCHANGED page_vars

\* lines 603-609
SummarizedView ==
  /\ pc = "summary"
  /\ summary_df' = plot_aggrid_table(create_summary_table(allocations_pct, total_portfolio_value,
                                                          asset_classifications))
  /\ pc' = "income_growth"
  /\ UNCHANGED <<selected_funds, allocations, total_portfolio_value, allocations_pct,
                 asset_classifications, hierarchical_df, allocation_data, income_growth_agg,
                 liquidity_agg, income_growth_table, csv, message>>
  /\ UNCHANGED page_vars

\* lines 613-623
IncomeGrowthOverview ==
  /\ pc = "income_growth"
  /\ allocation_data' = create_income_growth_allocation(allocations_pct, total_portfolio_value,
                                                        asset_classifications)
  /\ pc' = "donuts"
  /\ UNCHANGED <<selected_funds, allocations, total_portfolio_value, allocations_pct,
                 asset_classifications, hierarchical_df, summary_df, income_growth_agg,
                 liquidity_agg, income_growth_table, csv, message>>
  /\ UNCHANGED page_vars

\* lines 625-633
AttributeDonuts ==
  /\ pc = "donuts"
  /\ income_growth_agg' = aggregate_by_attribute(allocations_pct, total_portfolio_value,
                                                 asset_classifications, "IncomeGrowth")
  /\ liquidity_agg' = aggregate_by_attribute(allocations_pct, total_portfolio_value,
                                             asset_classifications, "Liquidity")
  /\ pc' = "income_table"
  /\ UNCHANGED <<selected_funds, allocations, total_portfolio_value, allocations_pct,
                 asset_classifications, hierarchical_df, summary_df, allocation_data,
                 income_growth_table, csv, message>>
  /\ UNCHANGED page_vars

\* lines 635-646
IncomeGrowthTable ==
  /\ pc = "income_table"
  /\ income_growth_table' = TagIncomeGrowthTable(create_income_growth_table(allocation_data))
  /\ pc' = "download"
  /\ UNCHANGED <<selected_funds, allocations, total_portfolio_value, allocations_pct,
                 asset_classifications, hierarchical_df, summary_df, allocation_data,
                 income_growth_agg, liquidity_agg, csv, message>>
  /\ UNCHANGED page_vars

\* lines 721-728
DownloadReport ==
  /\ pc = "download"
  /\ csv' = ConcatFrames(<<hierarchical_df, summary_df, DropColumn(income_growth_table, "RowType")>>)
  /\ pc' = "done"
  /\ UNCHANGED <<selected_funds, allocations, total_portfolio_value, allocations_pct,
                 asset_classifications, hierarchical_df, summary_df, allocation_data,
                 income_growth_agg, liquidity_agg, income_growth_table, message>>
  /\ UNCHANGED page_vars

Next ==
  \/ SelectFunds
  \/ EnterAllocations
  \/ NormalizeAllocations
  \/ LoadClassifications
  \/ DetailedBreakdown
  \/ SummarizedView
  \/ IncomeGrowthOverview
  \/ AttributeDonuts
  \/ IncomeGrowthTable
  \/ DownloadReport

Spec == Init /\ [][Next]_vars

(* ---------- the aggregation functions on arbitrary inputs ------------- *)
\* Percentages a caller may pass to the aggregation functions directly: a
\* negative one, zero, one that rounds on a tie (0.125) and one with no finite
\* decimal expansion (33.33...); they need not sum to 100.
PctChoices == {IntR(-10), Zero, Rat(1, 8), Rat(100, 3)}
TotalChoices == {Zero, IntR(1000)}

CoreAllocations ==
  UNION {{[i \in 1..k |-> <<f[i], p[i]>>] : f \in {s \in Selections : Len(s) = k},
                                            p \in [1..k -> PctChoices]} : k \in 1..MaxCoreFunds}

\* the functions are called, in main's order, on any allocation map, total and table
InitCore ==
  /\ pc = "detailed"
  /\ selected_funds = <<>>
  /\ allocations = None
  /\ total_portfolio_value \in TotalChoices
  /\ allocations_pct \in CoreAllocations
  /\ asset_classifications \in Lookups
  /\ hierarchical_df = None
  /\ summary_df = None
  /\ allocation_data = None
  /\ income_growth_agg = None
  /\ liquidity_agg = None
  /\ income_growth_table = None
  /\ csv = None
  /\ message = ""
  /\ InitPage

NextCore ==
  \/ DetailedBreakdown
  \/ SummarizedView
  \/ IncomeGrowthOverview
  \/ AttributeDonuts
  \/ IncomeGrowthTable
  \/ DownloadReport

SpecCore == InitCore /\ [][NextCore]_vars

(* ========== src/portfolio_classification.py: the percent-mode page ==== *)
\* the largest portfolio the session builds
MaxPortfolio == 2

\* lines 8-19: asset -> (traditional/alternative, public/private, liquidity)
ASSET_CLASSIFICATIONS ==
  ("US Stock ETF" :> <<"Traditional", "Public", "Highly Liquid">>) @@
  ("Corporate Bond Fund" :> <<"Traditional", "Public", "Highly Liquid">>) @@
  ("Private Equity Fund" :> <<"Alternative", "Private", "Illiquid">>) @@
  ("Real Estate Investment" :> <<"Alternative", "Private", "Moderately Liquid">>) @@
  ("Hedge Fund" :> <<"Alternative", "Private", "Moderately Liquid">>) @@
  ("Cryptocurrency" :> <<"Alternative", "Public", "Highly Liquid">>) @@
  ("Treasury Bond ETF" :> <<"Traditional", "Public", "Highly Liquid">>) @@
  ("Venture Capital Fund" :> <<"Alternative", "Private", "Illiquid">>) @@
  ("Art Collection" :> <<"Alternative", "Private", "Illiquid">>) @@
  ("Infrastructure Fund" :> <<"Alternative", "Private", "Illiquid">>)

\* lines 22-55
ASSET_HIERARCHY ==
  ("US Stock ETF" :> [category |-> "Traditional", subcategory |-> "Public Equity"]) @@
  ("Corporate Bond Fund" :> [category |-> "Traditional", subcategory |-> "Fixed Income"]) @@
  ("Treasury Bond ETF" :> [category |-> "Traditional", subcategory |-> "Fixed Income"]) @@
  ("Bellator" :> [category |-> "Traditional", subcategory |-> "Public Equity"]) @@
  ("US Tech (Glynn)" :> [category |-> "Traditional", subcategory |-> "Public Equity"]) @@
  ("Katam Hill (Global)" :> [category |-> "Traditional", subcategory |-> "Public Equity"]) @@
  ("Quantix" :> [category |-> "Traditional", subcategory |-> "Commodities"]) @@
  ("Money Market Funds" :> [category |-> "Traditional", subcategory |-> "Cash & Equivalent"]) @@
  ("Osterweis" :> [category |-> "Traditional", subcategory |-> "Fixed Income"]) @@
  ("Artisan Partners" :> [category |-> "Traditional", subcategory |-> "Fixed Income"]) @@
  ("Bramshill" :> [category |-> "Traditional", subcategory |-> "Fixed Income"]) @@
  ("Private Equity Fund" :> [category |-> "Alternative", subcategory |-> "Private Equity"]) @@
  ("Real Estate Investment" :> [category |-> "Alternative", subcategory |-> "Real Assets"]) @@
  ("Hedge Fund" :> [category |-> "Alternative", subcategory |-> "Hedge Funds"]) @@
  ("Cryptocurrency" :> [category |-> "Alternative", subcategory |-> "Digital Assets"]) @@
  ("Venture Capital Fund" :> [category |-> "Alternative", subcategory |-> "Private Equity"]) @@
  ("Art Collection" :> [category |-> "Alternative", subcategory |-> "Real Assets"]) @@
  ("Infrastructure Fund" :> [category |-> "Alternative", subcategory |-> "Real Assets"]) @@
  ("Monroe" :> [category |-> "Alternative", subcategory |-> "Private Credit"]) @@
  ("Callodine" :> [category |-> "Alternative", subcategory |-> "Private Credit"]) @@
  ("ASP" :> [category |-> "Alternative", subcategory |-> "Private Credit"]) @@
  ("Regan" :> [category |-> "Alternative", subcategory |-> "Private Credit"]) @@
  ("Origin" :> [category |-> "Alternative", subcategory |-> "Private Credit"]) @@
  ("Katam Hill (Hedge)" :> [category |-> "Alternative", subcategory |-> "Hedge Funds"]) @@
  ("NIM" :> [category |-> "Alternative", subcategory |-> "Hedge Funds"]) @@
  ("Evergreen (Secondaries, Co-Invest)" :> [category |-> "Alternative", subcategory |-> "Private Equity"]) @@
  ("HarbourVest" :> [category |-> "Alternative", subcategory |-> "Private Equity"])

\* lines 57-67
classify_asset(name) ==
  IF name \in DOMAIN ASSET_CLASSIFICATIONS THEN ASSET_CLASSIFICATIONS[name]
  ELSE <<"Alternative", "Private", "Illiquid">>

\* lines 261-270: one row per asset of the portfolio
ClassificationFrame(portfolio) ==
  [i \in DOMAIN portfolio |->
     [Asset |-> portfolio[i][1], Allocation |-> portfolio[i][2],
      Type |-> classify_asset(portfolio[i][1])[1],
      Access |-> classify_asset(portfolio[i][1])[2],
      Liquidity |-> classify_asset(portfolio[i][1])[3]]]

\* df.groupby(column)['Allocation'].sum()
GroupSum(df, column) ==
  [label \in {df[i][column] : i \in DOMAIN df} |->
     RSum([i \in DOMAIN df |-> IF df[i][column] = label THEN df[i].Allocation ELSE Zero])]

\* lines 258-332 (the figures are drawn from df by plotly)
create_classification_charts(portfolio) ==
  LET df == ClassificationFrame(portfolio)
  IN  [df |-> df,
       summary_df |-> [ByType |-> GroupSum(df, "Type"), ByAccess |-> GroupSum(df, "Access"),
                       ByLiquidity |-> GroupSum(df, "Liquidity")],
       classification_df |->
         [i \in DOMAIN portfolio |->
            <<portfolio[i][1], classify_asset(portfolio[i][1])[1],
              classify_asset(portfolio[i][1])[2], classify_asset(portfolio[i][1])[3]>>]]

\* lines 206-218: if id not in aggregated_data: create it with value 0; then += value
SunburstAggregate(aggregated_data, id, parents, value) ==
  LET entry == GetOr(aggregated_data, id, [labels |-> id, parents |-> parents, values |-> Zero])
  IN  Put(aggregated_data, id, [entry EXCEPT !.values = RAdd(@, value)])

\* lines 199-218
RECURSIVE AggregatedData(_)
AggregatedData(portfolio) ==
  IF portfolio = <<>> THEN <<>>
  ELSE LET n == Len(portfolio)
           before == AggregatedData(SubSeq(portfolio, 1, n - 1))
           name == portfolio[n][1]
           value == portfolio[n][2]
       IN  IF name \in DOMAIN ASSET_HIERARCHY
           THEN LET hierarchy_info == ASSET_HIERARCHY[name]
                IN  SunburstAggregate(
                      SunburstAggregate(
                        SunburstAggregate(before, name, hierarchy_info.subcategory, value),
                        hierarchy_info.subcategory, hierarchy_info.category, value),
                      hierarchy_info.category, "", value)
           ELSE before

\* lines 221-243: sunburst_final_df, the frame handed to px.sunburst
create_sunburst_chart(portfolio) ==
  LET aggregated_data == AggregatedData(portfolio)
  IN  [i \in DOMAIN aggregated_data |->
         [ids |-> aggregated_data[i][1],
          labels |-> aggregated_data[i][2].labels,
          parents |-> aggregated_data[i][2].parents,
          values |-> aggregated_data[i][2].values,
          top_category |-> IF aggregated_data[i][1] \in DOMAIN ASSET_HIERARCHY
                           THEN ASSET_HIERARCHY[aggregated_data[i][1]].category
                           ELSE aggregated_data[i][1]]]

\* mutant: only a total above 100 is reported
TotalWarning_OnlyAbove(portfolio) ==
  RLt(Rat(1, 100), RSub(RSum(Values(portfolio)), Hundred))

\* lines 398-400: abs(total_allocation - 100) > 0.01
TotalWarning(portfolio) ==
  RLt(Rat(1, 100), RAbs(RSub(RSum(Values(portfolio)), Hundred)))

\* mutant: an allocation submitted for an asset already held is added to it
StoreAllocation_Accumulates(portfolio, name, value) ==
  Put(portfolio, name, RAdd(GetOr(portfolio, name, Zero), value))

\* line 377: st.session_state.assets[asset_name] = allocation
StoreAllocation(portfolio, name, value) == Put(portfolio, name, value)

\* line 394: del st.session_state.assets[asset_to_remove]
DeleteAsset(portfolio, name) == SelectSeq(portfolio, LAMBDA e : e[1] # name)

\* lines 380-434: what one run of the script shows for the portfolio it ends with
Display(portfolio) ==
  IF portfolio # <<>>
  THEN /\ total_warning' = TotalWarning(portfolio)
       /\ classification_charts' = create_classification_charts(portfolio)
       /\ sunburst_chart' = create_sunburst_chart(portfolio)
  ELSE /\ total_warning' = FALSE
       /\ classification_charts' = None
       /\ sunburst_chart' = None

\* The names the model's user picks in the form's selectbox, out of the keys of
\* ASSET_HIERARCHY it offers (line 369): a Traditional and an Alternative asset
\* of ASSET_CLASSIFICATIONS, and an asset that is in ASSET_HIERARCHY only.
SelectableAssets == {"US Stock ETF", "Private Equity Fund", "Bellator"}

\* values of the number_input (min_value=0.0, max_value=100.0, line 373)
AllocationInputs == {Zero, Rat(1, 200), IntR(50), Hundred}

\* lines 364-377, then 380-434: a run started by the form's 'Add Asset' button
AddAsset ==
  /\ \E name \in SelectableAssets, value \in AllocationInputs :
       /\ Has(assets, name) \/ value = Zero \/ Len(assets) < MaxPortfolio
       /\ asset_name' = name
       /\ allocation' = value
       /\ assets' = IF name # "" /\ value # Zero THEN StoreAllocation(assets, name, value)
                    ELSE assets
  /\ event' = "Add Asset"
  /\ asset_to_remove' = IF Keys(assets') = Keys(assets) THEN asset_to_remove ELSE "None"
  /\ Display(assets')
  /\ UNCHANGED portfolio_vars

\* lines 389-392: a run started by a choice in the removal selectbox
SelectAssetToRemove ==
  /\ assets # <<>>
  /\ \E name \in {"None"} \cup {assets[i][1] : i \in DOMAIN assets} : asset_to_remove' = name
  /\ event' = ""
  /\ Display(assets)
  /\ UNCHANGED <<assets, asset_name, allocation>>
  /\ UNCHANGED portfolio_vars

\* lines 393-395: a run started by 'Remove Selected Asset', and the run that
\* st.experimental_rerun() starts once the asset is deleted
RemoveSelectedAsset ==
  /\ assets # <<>>
  /\ asset_to_remove # "None"
  /\ assets' = DeleteAsset(assets, asset_to_remove)
  /\ event' = "Remove Selected Asset"
  /\ asset_to_remove' = "None"
  /\ Display(assets')
  /\ UNCHANGED <<asset_name, allocation>>
  /\ UNCHANGED portfolio_vars

NextPage ==
  \/ AddAsset
  \/ SelectAssetToRemove
  \/ RemoveSelectedAsset

SpecPage == Init /\ [][NextPage]_vars

(* ====================================================================== *)
(*                         properties of the code                         *)
(* ====================================================================== *)
Cent == Rat(1, 100)
HalfCent == Rat(1, 200)

InputPcts == [i \in DOMAIN allocations_pct |-> allocations_pct[i][2]]
InputPctSum == RSum(InputPcts)
InputDollarSum ==
  RSum([i \in DOMAIN allocations_pct |-> AllocationValue(allocations_pct[i][2], total_portfolio_value)])

\* the node of every row of the two tables, from the inputs the tables were built from
DetailNodes ==
  SunburstNodes(SunburstTotals(allocations_pct, total_portfolio_value, asset_classifications))
SummaryNodeSeq ==
  SummaryNodes(SummaryTotals(allocations_pct, total_portfolio_value, asset_classifications))

\* the rows of a table emitted for nodes of one level
RowsOfLevel(nodes, level) == {i \in DOMAIN nodes : nodes[i][1] = level}

\* the sum of column col over the rows of one level
SumColumn(df, nodes, level, col) ==
  LET n == nodes
  IN  RSum([i \in DOMAIN df.rows |-> IF n[i][1] = level THEN df.rows[i][col] ELSE Zero])

\* a fund's labels, with the defaults of a fund or column the table lacks
ClassificationOf(asset) == Attr(asset_classifications, asset, "Classification", "Alternative")
AssetClassOf(asset) == Attr(asset_classifications, asset, "AssetClass", "")
SubAssetClassOf(asset) == Attr(asset_classifications, asset, "SubAssetClass", "")

\* fund number i of the allocation map lies in or below the node
Under(node, i) ==
  LET asset == allocations_pct[i][1]
  IN  /\ ClassificationOf(asset) = node[2]
      /\ node[1] # "Classification" => AssetClassOf(asset) = node[3]
      /\ node[1] \in {"Sub-Asset Class", "Instrument"} => SubAssetClassOf(asset) = node[4]

FundsUnder(node) == {i \in DOMAIN allocations_pct : Under(node, i)}
PctUnder(node) ==
  RSum([i \in DOMAIN allocations_pct |-> IF Under(node, i) THEN allocations_pct[i][2] ELSE Zero])
DollarsUnder(node) ==
  RSum([i \in DOMAIN allocations_pct |->
          IF Under(node, i) THEN AllocationValue(allocations_pct[i][2], total_portfolio_value)
          ELSE Zero])

\* the step that built the Detailed table, or the Summary table, has just run; no
\* later step of main assigns either table
DetailedBuilt == pc = "summary"
SummaryBuilt == pc = "income_growth"

\* |x - y| <= tolerance
Within(x, y, tolerance) == RLe(RAbs(RSub(x, y)), tolerance)

(* C1: in dollar mode with a total > 0, the 'Allocation ($)' values of the   *)
(* instrument rows of the Detailed table sum to totalPortfolioValue, within  *)
(* 0.01.                                                                     *)
C1_LeafDollarsSumToTotal ==
  DetailedBuilt =>
    LET nodes == DetailNodes
    IN  /\ Len(nodes) = Len(hierarchical_df.rows)
        /\ Within(SumColumn(hierarchical_df, nodes, "Instrument", 7), total_portfolio_value, Cent)

\* three funds with different positive amounts, spread over two classifications
C1_Witness ==
  /\ hierarchical_df # None
  /\ Cardinality(RowsOfLevel(DetailNodes, "Instrument")) = 3
  /\ Cardinality(RowsOfLevel(DetailNodes, "Classification")) = 2
  /\ \A i \in DOMAIN allocations : allocations[i][2] # Zero
  /\ \E i, j \in DOMAIN allocations : allocations[i][2] # allocations[j][2]

(* C2 (as claimed): the 'Allocation (%)' totals of the Classification rows   *)
(* of the Detailed table, and of the Summary table, sum to the sum of the    *)
(* input percentages.                                                        *)
C2_ClassificationRowsSumToInput ==
  /\ DetailedBuilt =>
       SumColumn(hierarchical_df, DetailNodes, "Classification", 6) = InputPctSum
  /\ SummaryBuilt =>
       SumColumn(summary_df, SummaryNodeSeq, "Classification", 6) = InputPctSum

(* C2 (amended): each Classification row carries its total rounded to 2      *)
(* decimals, so the Classification rows of either table sum to the sum of    *)
(* the input percentages within 0.005 per Classification row.                *)
C2_ClassificationRowsSumWithinRounding ==
  /\ DetailedBuilt =>
       LET nodes == DetailNodes
       IN  Within(SumColumn(hierarchical_df, nodes, "Classification", 6), InputPctSum,
                  RMul(IntR(Cardinality(RowsOfLevel(nodes, "Classification"))), HalfCent))
  /\ SummaryBuilt =>
       LET nodes == SummaryNodeSeq
       IN  Within(SumColumn(summary_df, nodes, "Classification", 6), InputPctSum,
                  RMul(IntR(Cardinality(RowsOfLevel(nodes, "Classification"))), HalfCent))

\* both tables built from three classifications whose rounded totals do not add
\* up to the input sum
C2_Witness ==
  /\ summary_df # None
  /\ Cardinality(RowsOfLevel(SummaryNodeSeq, "Classification")) = 3
  /\ SumColumn(hierarchical_df, DetailNodes, "Classification", 6) # InputPctSum
  /\ SumColumn(summary_df, SummaryNodeSeq, "Classification", 6) # InputPctSum

\* the values of one metric over the funds in or below a node
MetricsUnder(node, metric) ==
  {Attr(asset_classifications, allocations_pct[i][1], metric, Zero) : i \in FundsUnder(node)}
RMin(S) == CHOOSE m \in S : \A x \in S : RLe(m, x)
RMax(S) == CHOOSE m \in S : \A x \in S : RLe(x, m)

\* the weighted-average columns of the Summary table and the metric each averages
AverageColumns == {<<8, "Yield">>, <<10, "Return">>, <<12, "Volatility">>}
AveragedLevels == {"Classification", "Sub-Asset Class"}

(* C3 (as claimed): at every sub-asset-class row and Classification row of   *)
(* the Summary table, each weighted-average field lies between the minimum   *)
(* and the maximum of that metric over the funds aggregated into the node.   *)
C3_AverageWithinRange ==
  SummaryBuilt =>
    LET nodes == SummaryNodeSeq
    IN  \A i \in DOMAIN nodes : nodes[i][1] \in AveragedLevels =>
          \A cm \in AverageColumns :
            LET metrics == MetricsUnder(nodes[i], cm[2])
            IN  /\ RLe(RMin(metrics), summary_df.rows[i][cm[1]])
                /\ RLe(summary_df.rows[i][cm[1]], RMax(metrics))

(* C3 (amended): with non-negative allocations, at every sub-asset-class row *)
(* and Classification row whose funds have a total allocation > 0, each      *)
(* weighted-average field (rounded to 2 decimals) lies between the minimum   *)
(* and the maximum of that metric over the node's funds, each rounded to 2   *)
(* decimals; at a node whose total allocation is 0 the field is 0.           *)
C3_AverageWithinRoundedRange ==
  (SummaryBuilt /\ \A i \in DOMAIN InputPcts : RLe(Zero, InputPcts[i])) =>
    LET nodes == SummaryNodeSeq
    IN  \A i \in DOMAIN nodes : nodes[i][1] \in AveragedLevels =>
          LET held == RLt(Zero, PctUnder(nodes[i]))
          IN  \A cm \in AverageColumns :
                LET metrics == MetricsUnder(nodes[i], cm[2])
                IN  IF held
                    THEN /\ RLe(Round2(RMin(metrics)), summary_df.rows[i][cm[1]])
                         /\ RLe(summary_df.rows[i][cm[1]], Round2(RMax(metrics)))
                    ELSE summary_df.rows[i][cm[1]] = Zero

\* a sub-asset class of two funds with different yields, both held, whose average
\* lies strictly between the two
C3_Witness ==
  /\ summary_df # None
  /\ LET nodes == SummaryNodeSeq
     IN  \E i \in DOMAIN nodes :
           /\ nodes[i][1] = "Sub-Asset Class"
           /\ Cardinality(FundsUnder(nodes[i])) = 2
           /\ \A k \in FundsUnder(nodes[i]) : RLt(Zero, InputPcts[k])
           /\ RLt(RMin(MetricsUnder(nodes[i], "Yield")), summary_df.rows[i][8])
           /\ RLt(summary_df.rows[i][8], RMax(MetricsUnder(nodes[i], "Yield")))

\* the columns of the reference table that hold labels
LabelAttributes ==
  {"Classification", "AssetClass", "SubAssetClass", "Liquidity", "Instrument", "PublicPrivate",
   "IncomeGrowth"}

(* C4: for every allocation map, table and attribute name, the values of the *)
(* map aggregate_by_attribute returns sum to the sum of the input            *)
(* percentages.                                                              *)
C4_AggregateSumsToInput ==
  income_growth_agg # None =>
    /\ RSum(Values(income_growth_agg)) = InputPctSum
    /\ RSum(Values(liquidity_agg)) = InputPctSum
    /\ \A attribute \in LabelAttributes \cup {"No Such Column"} :
         RSum(Values(aggregate_by_attribute(allocations_pct, total_portfolio_value,
                                            asset_classifications, attribute))) = InputPctSum

\* two funds with different non-zero percentages under one liquidity label, and
\* under two income/growth labels
C4_Witness ==
  /\ income_growth_agg # None
  /\ Len(allocations_pct) = 2
  /\ Len(liquidity_agg) = 1
  /\ Len(income_growth_agg) = 2
  /\ InputPcts[1] # Zero /\ InputPcts[2] # Zero /\ InputPcts[1] # InputPcts[2]

\* the income/growth table has just been built and tagged
CrossTabBuilt == pc = "download"

\* the sum of a column over the sub-asset rows shown in the income/growth table
\* (the rows with a blank 'Type')
ShownSubAssetSum(col) ==
  RSum([i \in DOMAIN income_growth_table.rows |->
          IF income_growth_table.rows[i][1] = "" THEN income_growth_table.rows[i][col] ELSE Zero])
ShownSubAssetRows == {i \in DOMAIN income_growth_table.rows : income_growth_table.rows[i][1] = ""}

(* C5: in the income/growth x liquidity table the 'Total' row's percentage  *)
(* and dollar value equal the sum over all categories, the sum of the        *)
(* sub-asset rows shown in the table and the un-grouped totals, each up to   *)
(* the rounding of the rows to 2 decimals.                                   *)
C5_TotalRowEqualsShownRows ==
  CrossTabBuilt =>
    LET total_row == income_growth_table.rows[Len(income_growth_table.rows)]
        tolerance == RMul(IntR(Cardinality(ShownSubAssetRows) + 1), HalfCent)
    IN  /\ total_row[1] = "Total"
        /\ total_row[3] = Round2(RSum([i \in DOMAIN allocation_data |-> allocation_data[i][2].pct]))
        /\ total_row[4] = Round2(RSum([i \in DOMAIN allocation_data |-> allocation_data[i][2].value]))
        /\ Within(total_row[3], InputPctSum, HalfCent)
        /\ Within(total_row[4], InputDollarSum, HalfCent)
        /\ Within(total_row[3], ShownSubAssetSum(3), tolerance)
        /\ Within(total_row[4], ShownSubAssetSum(4), tolerance)

(* C7: in dollar mode with a total > 0, totalPortfolioValue is the sum of   *)
(* the raw amounts, every fund's percentage is raw / total * 100, and the    *)
(* percentages sum to 100; {A: 600000, B: 400000} gives {A: 60, B: 40}.      *)
C7_DollarModeNormalization ==
  /\ total_portfolio_value # None =>
       total_portfolio_value = RSum([i \in DOMAIN allocations |-> allocations[i][2]])
  /\ allocations_pct # None =>
       /\ RLt(Zero, total_portfolio_value)
       /\ Len(allocations_pct) = Len(allocations)
       /\ \A i \in DOMAIN allocations :
            /\ allocations_pct[i][1] = allocations[i][1]
            /\ RMul(allocations_pct[i][2], total_portfolio_value) = RMul(Hundred, allocations[i][2])
       /\ InputPctSum = Hundred
  /\ Normalize(<<<<"A", IntR(600000)>>, <<"B", IntR(400000)>>>>, IntR(1000000))
       = <<<<"A", IntR(60)>>, <<"B", IntR(40)>>>>

\* three funds with three different amounts, one of them 0, normalised to
\* percentages that are not whole numbers
C7_Witness ==
  /\ pc = "load"
  /\ Len(allocations) = 3
  /\ \A i, j \in DOMAIN allocations : allocations[i][2] = allocations[j][2] => i = j
  /\ \E i \in DOMAIN allocations_pct : allocations_pct[i][2][2] # 1

ZeroTotalWarning == "Total allocation amount must be greater than $0"

(* C8: when the total of the entered amounts is not > 0, no canonical        *)
(* allocation is produced, no aggregation and no export is performed, and    *)
(* main ends with the warning.                                               *)
C8_ZeroTotalBlocksAggregation ==
  (total_portfolio_value # None /\ RLe(total_portfolio_value, Zero)) =>
    /\ pc = "done"
    /\ message = ZeroTotalWarning
    /\ allocations_pct = None
    /\ asset_classifications = None
    /\ hierarchical_df = None
    /\ summary_df = None
    /\ allocation_data = None
    /\ income_growth_agg = None
    /\ liquidity_agg = None
    /\ income_growth_table = None
    /\ csv = None

\* three funds selected and every amount left at 0
C8_Witness ==
  /\ Len(selected_funds) = 3
  /\ allocations # None
  /\ \A i \in DOMAIN allocations : allocations[i][2] = Zero
  /\ total_portfolio_value = Zero
  /\ message = ZeroTotalWarning

\* the funds of the allocation map that the reference table lacks
AbsentFunds == {i \in DOMAIN allocations_pct : allocations_pct[i][1] \notin DOMAIN asset_classifications}

(* C9: in the Detailed table a fund absent from the lookup is not an error:  *)
(* the table is built, and the fund has an instrument row under              *)
(* Classification "Alternative", Asset Class "" and Sub-Asset Class "" with  *)
(* Liquidity "Illiquid", its own name as Instrument/Manager, and its own     *)
(* percentage and dollars.                                                   *)
C9_AbsentFundDefaults ==
  DetailedBuilt =>
    LET nodes == DetailNodes
    IN  /\ Len(nodes) = Len(hierarchical_df.rows)
        /\ \A i \in AbsentFunds :
             LET asset == allocations_pct[i][1]
                 alloc_pct == allocations_pct[i][2]
                 dollars == RMul(RDiv(alloc_pct, Hundred), total_portfolio_value)
             IN  /\ \E r \in DOMAIN nodes :
                      /\ nodes[r][1] = "Instrument"
                      /\ nodes[r][2] = "Alternative" /\ nodes[r][3] = "" /\ nodes[r][4] = ""
                      /\ SubSeq(hierarchical_df.rows[r], 1, 7)
                           = <<"", "", "", "Illiquid", asset, alloc_pct, dollars>>
                 /\ \E r \in DOMAIN nodes :
                      /\ nodes[r][1] = "Classification"
                      /\ hierarchical_df.rows[r][1] = "Alternative"
                 /\ \E r \in DOMAIN nodes :
                      /\ nodes[r][1] = "Asset Class" /\ nodes[r][2] = "Alternative"
                      /\ hierarchical_df.rows[r][2] = ""
                 /\ \E r \in DOMAIN nodes :
                      /\ nodes[r][1] = "Sub-Asset Class" /\ nodes[r][2] = "Alternative"
                      /\ nodes[r][3] = "" /\ hierarchical_df.rows[r][3] = ""

\* an absent fund with a non-zero percentage, next to a fund the table places
\* under "Alternative" as well
C9_Witness ==
  /\ DetailedBuilt
  /\ Len(allocations_pct) = 2
  /\ Cardinality(AbsentFunds) = 1
  /\ \A i \in DOMAIN allocations_pct : allocations_pct[i][2] # Zero
  /\ Cardinality(RowsOfLevel(DetailNodes, "Classification")) = 1
  /\ Cardinality(RowsOfLevel(DetailNodes, "Asset Class")) = 2

NonLeafLevels == {"Classification", "Asset Class", "Sub-Asset Class"}

IsRounded2(x) == x = None \/ Round2(x) = x

\* every cell of the columns `cols` of every row of the table is rounded
AllRounded2(df, cols) == \A r \in DOMAIN df.rows : \A c \in cols : IsRounded2(df.rows[r][c])

(* C11: every numeric field of every row of the Detailed table, the Summary  *)
(* table and the income/growth table is rounded to 2 decimal places, and a   *)
(* subtotal is the rounding of the sum of the unrounded values.              *)
C11_EveryNumericFieldRounded ==
  /\ DetailedBuilt =>
       /\ AllRounded2(hierarchical_df, 6..7)
       /\ LET nodes == DetailNodes
          IN  \A r \in DOMAIN nodes : nodes[r][1] = "Classification" =>
                hierarchical_df.rows[r][6] = Round2(PctUnder(nodes[r]))
  /\ SummaryBuilt =>
       /\ AllRounded2(summary_df, 6..14)
       /\ LET nodes == SummaryNodeSeq
          IN  \A r \in DOMAIN nodes : nodes[r][1] = "Classification" =>
                summary_df.rows[r][6] = Round2(PctUnder(nodes[r]))
  /\ CrossTabBuilt => AllRounded2(income_growth_table, 3..4)

\* the distinct elements of a sequence, in order of first appearance
RECURSIVE FirstSeen(_)
FirstSeen(seq) ==
  IF seq = <<>> THEN <<>>
  ELSE LET before == FirstSeen(SubSeq(seq, 1, Len(seq) - 1))
       IN  IF \E i \in DOMAIN before : before[i] = seq[Len(seq)] THEN before
           ELSE Append(before, seq[Len(seq)])

\* the places of the allocation map, in its iteration order
MapOrder == [i \in DOMAIN allocations_pct |-> i]
FundAt(i) == allocations_pct[i][1]

\* the labels seen at each level, in the order the allocation map first shows them
ClassificationsSeen == FirstSeen([i \in DOMAIN allocations_pct |-> ClassificationOf(FundAt(i))])
AssetClassesSeen(cl) ==
  LET funds == SelectSeq(MapOrder, LAMBDA i : ClassificationOf(FundAt(i)) = cl)
  IN  FirstSeen([k \in DOMAIN funds |-> AssetClassOf(FundAt(funds[k]))])
SubAssetClassesSeen(cl, ac) ==
  LET funds == SelectSeq(MapOrder, LAMBDA i : /\ ClassificationOf(FundAt(i)) = cl
                                              /\ AssetClassOf(FundAt(i)) = ac)
  IN  FirstSeen([k \in DOMAIN funds |-> SubAssetClassOf(FundAt(funds[k]))])
\* the funds of one sub-asset class, in the allocation map's order
FundsSeen(cl, ac, sub) ==
  SelectSeq(MapOrder, LAMBDA i : /\ ClassificationOf(FundAt(i)) = cl
                                 /\ AssetClassOf(FundAt(i)) = ac
                                 /\ SubAssetClassOf(FundAt(i)) = sub)

\* the label columns of the rows of a depth-first pre-order walk, siblings in
\* first-seen order: of the Detailed table (5 columns, instruments as leaves)
ExpectedDetailedLabels ==
  LET classes == ClassificationsSeen
  IN  Concat([c \in DOMAIN classes |->
        LET cl == classes[c]
            asset_classes == AssetClassesSeen(cl)
        IN  <<<<cl, "", "", "", "">>>> \o
            Concat([a \in DOMAIN asset_classes |->
              LET ac == asset_classes[a]
                  sub_classes == SubAssetClassesSeen(cl, ac)
              IN  <<<<"", ac, "", "", "">>>> \o
                  Concat([b \in DOMAIN sub_classes |->
                    LET funds == FundsSeen(cl, ac, sub_classes[b])
                    IN  <<<<"", "", sub_classes[b], "", "">>>> \o
                        [k \in DOMAIN funds |->
                           <<"", "", "",
                             Attr(asset_classifications, FundAt(funds[k]), "Liquidity", "Illiquid"),
                             Attr(asset_classifications, FundAt(funds[k]), "Instrument",
                                  FundAt(funds[k]))>>]])])])

\* and of the Summary table (3 columns, sub-asset classes as leaves)
ExpectedSummaryLabels ==
  LET classes == ClassificationsSeen
  IN  Concat([c \in DOMAIN classes |->
        LET cl == classes[c]
            asset_classes == AssetClassesSeen(cl)
        IN  <<<<cl, "", "">>>> \o
            Concat([a \in DOMAIN asset_classes |->
              LET ac == asset_classes[a]
                  sub_classes == SubAssetClassesSeen(cl, ac)
              IN  <<<<"", ac, "">>>> \o [b \in DOMAIN sub_classes |-> <<"", "", sub_classes[b]>>]])])

(* C12: the rows of the Detailed and of the Summary table are those of a     *)
(* depth-first pre-order walk with siblings in insertion order:              *)
(* Classification rows in the order the allocation map first shows their     *)
(* label, likewise Asset Class rows within a Classification and Sub-Asset    *)
(* Class rows within an Asset Class, every node's row before the rows of its *)
(* subtree and after the rows of the subtrees of its earlier siblings.       *)
C12_PreOrderInsertionOrder ==
  /\ DetailedBuilt =>
       [r \in DOMAIN hierarchical_df.rows |-> SubSeq(hierarchical_df.rows[r], 1, 5)]
         = ExpectedDetailedLabels
  /\ SummaryBuilt =>
       [r \in DOMAIN summary_df.rows |-> SubSeq(summary_df.rows[r], 1, 3)]
         = ExpectedSummaryLabels

\* three funds, the third falling into the classification of the first and the
\* second into another one, whose label sorts before it
C12_Witness ==
  /\ SummaryBuilt
  /\ Len(allocations_pct) = 3
  /\ ClassificationOf(FundAt(1)) = ClassificationOf(FundAt(3))
  /\ ClassificationOf(FundAt(1)) = "Traditional"
  /\ ClassificationOf(FundAt(2)) = "Alternative"
  /\ AssetClassOf(FundAt(1)) # AssetClassOf(FundAt(3))
  /\ Len(summary_df.rows) = 8

\* the instrument row of the fund at place i of the allocation map
ExpectedInstrumentRow(i) ==
  <<"", "", "",
    Attr(asset_classifications, FundAt(i), "Liquidity", "Illiquid"),
    Attr(asset_classifications, FundAt(i), "Instrument", FundAt(i)),
    allocations_pct[i][2],
    RMul(RDiv(allocations_pct[i][2], Hundred), total_portfolio_value)>>

(* C13: the Detailed table has exactly one instrument row per fund of the    *)
(* allocation map, also for funds that share a sub-asset class or an         *)
(* instrument name and for a fund whose allocation is 0; the k-th instrument *)
(* row under a sub-asset-class node is the row of the k-th fund of that node *)
(* in the allocation map's order, with that fund's own percentage and        *)
(* dollars.                                                                  *)
C13_OneInstrumentRowPerFund ==
  DetailedBuilt =>
    LET nodes == DetailNodes
    IN  /\ Len(nodes) = Len(hierarchical_df.rows)
        /\ Cardinality(RowsOfLevel(nodes, "Instrument")) = Len(allocations_pct)
        /\ \A r \in DOMAIN nodes : nodes[r][1] = "Instrument" =>
             LET funds == FundsSeen(nodes[r][2], nodes[r][3], nodes[r][4])
             IN  /\ nodes[r][5] \in DOMAIN funds
                 /\ SubSeq(hierarchical_df.rows[r], 1, 7) = ExpectedInstrumentRow(funds[nodes[r][5]])

\* two funds of one sub-asset class with the same instrument name, the first
\* of them with an allocation of 0, next to a third fund
C13_Witness ==
  /\ DetailedBuilt
  /\ Len(allocations_pct) = 3
  /\ \E i, j \in DOMAIN allocations_pct :
       /\ i < j
       /\ FundsSeen(ClassificationOf(FundAt(i)), AssetClassOf(FundAt(i)), SubAssetClassOf(FundAt(i)))
            = <<i, j>>
       /\ ExpectedInstrumentRow(i)[5] = ExpectedInstrumentRow(j)[5]
       /\ allocations_pct[i][2] = Zero
       /\ allocations_pct[j][2] # Zero

\* the row-kind tag of a row: the 'RowType' cell, the last one
RowTypeOf(row) == row[Len(row)]

\* the tag that names the level of a node
TagOfLevel(level) ==
  CASE level = "Classification" -> "Classification"
    [] level = "Asset Class" -> "Subheader"
    [] OTHER -> "Normal"

\* the label of the node's own level
OwnLabel(node) ==
  CASE node[1] = "Classification" -> node[2]
    [] node[1] = "Asset Class" -> node[3]
    [] OTHER -> node[4]

\* which of the five label columns of a row are blank
BlankPattern(row) == [c \in 1..5 |-> row[c] = ""]

\* the tag depends only on which label columns are blank
TagByBlankPattern(df) ==
  \A r1, r2 \in DOMAIN df.rows :
    BlankPattern(df.rows[r1]) = BlankPattern(df.rows[r2]) => RowTypeOf(df.rows[r1]) = RowTypeOf(df.rows[r2])

(* C14 (as claimed): the row-kind tag of every row of the Detailed and the   *)
(* Summary table names the level that produced the row - 'Classification'    *)
(* for a Classification node, 'Subheader' for an Asset Class node, 'Normal'  *)
(* for a sub-asset-class or instrument row - for every lookup, blank labels  *)
(* included.                                                                 *)
C14_TagIdentifiesLevel ==
  /\ DetailedBuilt =>
       LET nodes == DetailNodes
       IN  \A r \in DOMAIN nodes : RowTypeOf(hierarchical_df.rows[r]) = TagOfLevel(nodes[r][1])
  /\ SummaryBuilt =>
       LET nodes == SummaryNodeSeq
       IN  \A r \in DOMAIN nodes : RowTypeOf(summary_df.rows[r]) = TagOfLevel(nodes[r][1])

(* C14 (amended): the tag is a function only of which label columns are     *)
(* blank; it names the level of every Classification and Asset Class row     *)
(* whose own label is not blank, and it is 'Normal' for every sub-asset-     *)
(* class row, every instrument row, and every Classification or Asset Class  *)
(* row whose own label is blank.                                             *)
C14_TagIdentifiesLabelledLevel ==
  /\ DetailedBuilt =>
       LET nodes == DetailNodes
       IN  /\ Len(nodes) = Len(hierarchical_df.rows)
           /\ TagByBlankPattern(hierarchical_df)
           /\ \A r \in DOMAIN nodes :
                RowTypeOf(hierarchical_df.rows[r])
                  = IF OwnLabel(nodes[r]) # "" THEN TagOfLevel(nodes[r][1]) ELSE "Normal"
  /\ SummaryBuilt =>
       LET nodes == SummaryNodeSeq
       IN  /\ Len(nodes) = Len(summary_df.rows)
           /\ TagByBlankPattern(summary_df)
           /\ \A r \in DOMAIN nodes :
                RowTypeOf(summary_df.rows[r])
                  = IF OwnLabel(nodes[r]) # "" THEN TagOfLevel(nodes[r][1]) ELSE "Normal"

\* both tables hold a labelled Classification row tagged 'Classification', a
\* labelled Asset Class row tagged 'Subheader' and an Asset Class row with a
\* blank label tagged 'Normal'
C14_Witness ==
  /\ SummaryBuilt
  /\ \A df \in {hierarchical_df, summary_df} :
       /\ \E r \in DOMAIN df.rows : df.rows[r][1] # "" /\ RowTypeOf(df.rows[r]) = "Classification"
       /\ \E r \in DOMAIN df.rows : df.rows[r][2] # "" /\ RowTypeOf(df.rows[r]) = "Subheader"
  /\ LET nodes == SummaryNodeSeq
     IN  \E r \in DOMAIN nodes :
           /\ nodes[r][1] = "Asset Class" /\ nodes[r][3] = ""
           /\ RowTypeOf(summary_df.rows[r]) = "Normal"

\* the income/growth categories have just been built
AllocationBuilt == pc = "donuts"

\* the category the claim assigns to the fund at place i of the allocation map
ExpectedCategory(i) ==
  LET income_growth == Attr(asset_classifications, FundAt(i), "IncomeGrowth", "")
      liquidity == Attr(asset_classifications, FundAt(i), "Liquidity", "")
      short == IF liquidity = "Semi-liquid" THEN "Semi" ELSE liquidity
  IN  IF AssetClassOf(FundAt(i)) = "Cash & Equivalent" THEN "Cash & Equivalent"
      ELSE income_growth \o " (" \o short \o ")"

PctOfCategory(category) ==
  RSum([i \in DOMAIN allocations_pct |->
          IF ExpectedCategory(i) = category THEN allocations_pct[i][2] ELSE Zero])
DollarsOfCategory(category) ==
  RSum([i \in DOMAIN allocations_pct |->
          IF ExpectedCategory(i) = category
          THEN RMul(RDiv(allocations_pct[i][2], Hundred), total_portfolio_value) ELSE Zero])

(* C15: create_income_growth_allocation puts every fund into exactly one     *)
(* category - "Cash & Equivalent" if that is its asset class, otherwise      *)
(* "{income/growth} ({liquidity})" with Semi-liquid shortened to Semi and    *)
(* any other liquidity used unchanged - and every category holds the         *)
(* percentages and dollars of exactly the funds put into it.                 *)
C15_OneCategoryPerFund ==
  AllocationBuilt =>
    /\ \A i \in DOMAIN allocations_pct : Has(allocation_data, ExpectedCategory(i))
    /\ \A m, n \in DOMAIN allocation_data : allocation_data[m][1] = allocation_data[n][1] => m = n
    /\ \A m \in DOMAIN allocation_data :
         /\ allocation_data[m][2].pct = PctOfCategory(allocation_data[m][1])
         /\ allocation_data[m][2].value = DollarsOfCategory(allocation_data[m][1])

\* two funds with non-zero allocations in one category, and a Semi-liquid fund
\* in "Income (Semi)"
C15_Witness ==
  /\ AllocationBuilt
  /\ Len(allocations_pct) = 3
  /\ \A i \in DOMAIN allocations_pct : allocations_pct[i][2] # Zero
  /\ \E i, j \in DOMAIN allocations_pct : i # j /\ ExpectedCategory(i) = ExpectedCategory(j)
  /\ \E i \in DOMAIN allocations_pct :
       /\ Attr(asset_classifications, FundAt(i), "Liquidity", "") = "Semi-liquid"
       /\ At(allocation_data, "Income (Semi)").pct = allocations_pct[i][2]

CanonicalCategories ==
  {"Cash & Equivalent", "Growth (Liquid)", "Growth (Semi)", "Growth (Illiquid)", "Income (Liquid)",
   "Income (Semi)", "Income (Illiquid)"}

\* the funds the claim's rule puts into a category
FundsOfCategory(category) == {i \in DOMAIN allocations_pct : ExpectedCategory(i) = category}

(* C16: the result of create_income_growth_allocation always contains the    *)
(* seven canonical categories; a canonical category that received no fund    *)
(* has pct 0, value 0 and an empty sub-asset breakdown; a category outside   *)
(* the seven exists only if at least one fund derived it.                    *)
C16_SevenCanonicalCategories ==
  AllocationBuilt =>
    /\ \A category \in CanonicalCategories :
         /\ Has(allocation_data, category)
         /\ FundsOfCategory(category) = {} =>
              At(allocation_data, category) = [pct |-> Zero, value |-> Zero, sub_assets |-> <<>>]
    /\ \A m \in DOMAIN allocation_data :
         allocation_data[m][1] \notin CanonicalCategories =>
           FundsOfCategory(allocation_data[m][1]) # {}

\* a fund in a canonical category, a fund in a category outside the seven, and
\* the cash category left empty
C16_Witness ==
  /\ AllocationBuilt
  /\ Len(allocation_data) = 8
  /\ \E category \in CanonicalCategories : FundsOfCategory(category) # {}
  /\ FundsOfCategory("Cash & Equivalent") = {}
  /\ At(allocation_data, "Cash & Equivalent").sub_assets = <<>>

\* the fixed display order of the seven canonical categories
DisplayOrder ==
  <<"Growth (Liquid)", "Growth (Semi)", "Growth (Illiquid)", "Income (Liquid)", "Income (Semi)",
    "Income (Illiquid)", "Cash & Equivalent">>

\* the categories whose header row the income/growth table shows, in row order
\* (a header row has a non-blank 'Type'; the last row is the Total row)
DisplayedCategories ==
  LET n == Len(income_growth_table.rows)
      headers == SelectSeq(SubSeq(income_growth_table.rows, 1, n - 1), LAMBDA row : row[1] # "")
  IN  [h \in DOMAIN headers |-> headers[h][1]]

(* C17: create_income_growth_table displays the seven canonical categories   *)
(* in the fixed order Growth (Liquid), Growth (Semi), Growth (Illiquid),     *)
(* Income (Liquid), Income (Semi), Income (Illiquid), Cash & Equivalent,     *)
(* then every dynamically-added category in first-seen order, then the       *)
(* Total row.                                                                *)
C17_DynamicCategoriesDisplayed ==
  CrossTabBuilt =>
    /\ DisplayedCategories
         = DisplayOrder \o SelectSeq(Keys(allocation_data), LAMBDA k : k \notin CanonicalCategories)
    /\ income_growth_table.rows[Len(income_growth_table.rows)][1] = "Total"

\* the two attribute maps have just been built
DonutsBuilt == pc = "income_table"

\* the label of the fund at place i for an attribute: its value in the lookup,
\* "Unknown" if the fund or the value is missing
LabelOf(i, attribute) ==
  IF FundAt(i) \in DOMAIN asset_classifications
  THEN IF attribute \in DOMAIN asset_classifications[FundAt(i)]
       THEN asset_classifications[FundAt(i)][attribute] ELSE "Unknown"
  ELSE "Unknown"

\* agg groups the percentages by the attribute's label
GroupsByLabel(agg, attribute) ==
  /\ {agg[m][1] : m \in DOMAIN agg} = {LabelOf(i, attribute) : i \in DOMAIN allocations_pct}
  /\ \A m, n \in DOMAIN agg : agg[m][1] = agg[n][1] => m = n
  /\ \A m \in DOMAIN agg :
       agg[m][2] = RSum([i \in DOMAIN allocations_pct |->
                           IF LabelOf(i, attribute) = agg[m][1] THEN allocations_pct[i][2]
                           ELSE Zero])

(* C18: aggregate_by_attribute groups the percentages by the value of the    *)
(* named attribute, with the label "Unknown" for every fund that is absent   *)
(* from the lookup or whose entry has no value for the attribute; each       *)
(* output value is the sum of the percentages of exactly the funds with      *)
(* that label.                                                               *)
C18_GroupsByAttribute ==
  DonutsBuilt =>
    /\ GroupsByLabel(income_growth_agg, "IncomeGrowth")
    /\ GroupsByLabel(liquidity_agg, "Liquidity")
    /\ \A attribute \in LabelAttributes \cup {"No Such Column"} :
         GroupsByLabel(aggregate_by_attribute(allocations_pct, total_portfolio_value,
                                              asset_classifications, attribute), attribute)

\* two funds with different non-zero percentages that share an income/growth
\* label and both lack a 'Public vs Private' value
C18_Witness ==
  /\ DonutsBuilt
  /\ Len(allocations_pct) = 2
  /\ allocations_pct[1][2] # Zero /\ allocations_pct[2][2] # Zero
  /\ allocations_pct[1][2] # allocations_pct[2][2]
  /\ Len(income_growth_agg) = 1
  /\ income_growth_agg[1][1] # "Unknown"
  /\ Keys(aggregate_by_attribute(allocations_pct, total_portfolio_value, asset_classifications,
                                 "PublicPrivate")) = <<"Unknown">>

\* the weighted sum of a metric over the funds in or below a node
WeightedSumUnder(node, metric) ==
  RSum([i \in DOMAIN allocations_pct |->
          IF Under(node, i)
          THEN RMul(allocations_pct[i][2], Attr(asset_classifications, FundAt(i), metric, Zero))
          ELSE Zero])

\* the average columns with a derived dollar column: <<average, dollars, metric>>
DollarColumns == {<<8, 9, "Yield">>, <<10, 11, "Return">>}

(* C19 (as claimed): at every sub-asset-class row and Classification row of  *)
(* the Summary table each weighted average equals weightedSum / totalWeight, *)
(* and is 0 whenever the node's totalWeight is 0; the derived dollar fields  *)
(* of such a node are 0 as well.                                             *)
C19_AverageIsWeightedSumOverWeight ==
  SummaryBuilt =>
    LET nodes == SummaryNodeSeq
    IN  \A r \in DOMAIN nodes : nodes[r][1] \in AveragedLevels =>
          LET weight == PctUnder(nodes[r])
          IN  /\ \A cm \in AverageColumns :
                   summary_df.rows[r][cm[1]]
                     = IF weight = Zero THEN Zero
                       ELSE RDiv(WeightedSumUnder(nodes[r], cm[2]), weight)
              /\ weight = Zero => \A cd \in DollarColumns : summary_df.rows[r][cd[2]] = Zero

(* C19 (amended): each weighted average equals weightedSum / totalWeight     *)
(* rounded to 2 decimals when the node's totalWeight is > 0; whenever the    *)
(* totalWeight is not > 0 (it is 0, or negative) the average is 0 with no    *)
(* division performed, and the derived dollar fields of such a node are 0.   *)
(* With a totalWeight > 0 a derived dollar field is the node's dollars times *)
(* the unrounded average / 100, rounded to 2 decimals.                       *)
C19_AverageIsRoundedOrZero ==
  SummaryBuilt =>
    LET nodes == SummaryNodeSeq
    IN  /\ Len(nodes) = Len(summary_df.rows)
        /\ \A r \in DOMAIN nodes : nodes[r][1] \in AveragedLevels =>
             LET weight == PctUnder(nodes[r])
             IN  IF RLt(Zero, weight)
                 THEN /\ \A cm \in AverageColumns :
                           summary_df.rows[r][cm[1]]
                             = Round2(RDiv(WeightedSumUnder(nodes[r], cm[2]), weight))
                      /\ \A cd \in DollarColumns :
                           summary_df.rows[r][cd[2]]
                             = Round2(RDiv(RMul(DollarsUnder(nodes[r]),
                                                RDiv(WeightedSumUnder(nodes[r], cd[3]), weight)),
                                           Hundred))
                 ELSE /\ \A cm \in AverageColumns : summary_df.rows[r][cm[1]] = Zero
                      /\ \A cd \in DollarColumns : summary_df.rows[r][cd[2]] = Zero

\* a Classification whose only fund has allocation 0 and an expected return
\* that is not 0, next to a Classification with a weight > 0 and an average
\* return that is not 0
C19_Witness ==
  /\ SummaryBuilt
  /\ LET nodes == SummaryNodeSeq
     IN  /\ \E r \in DOMAIN nodes :
               /\ nodes[r][1] = "Classification"
               /\ PctUnder(nodes[r]) = Zero
               /\ WeightedSumUnder(nodes[r], "Return") = Zero
               /\ \A i \in FundsUnder(nodes[r]) :
                    Attr(asset_classifications, FundAt(i), "Return", Zero) # Zero
               /\ summary_df.rows[r][10] = Zero
         /\ \E r \in DOMAIN nodes :
               /\ nodes[r][1] = "Classification"
               /\ RLt(Zero, PctUnder(nodes[r]))
               /\ summary_df.rows[r][10] # Zero

\* a cell holds a number: not the outcome of a failed division
IsNumber(x) == Len(x) = 2 /\ x[2] > 0

\* a returned table: every row has a cell for every column, and every cell of
\* the numeric columns `cols` is empty or a number
IsResultTable(df, cols) ==
  \A r \in DOMAIN df.rows :
    /\ Len(df.rows[r]) = Len(df.columns)
    /\ \A c \in cols : df.rows[r][c] = None \/ IsNumber(df.rows[r][c])

(* C20: every core operation is total: for every allocation map (negative   *)
(* and zero percentages, sums that are not 100), every total and every       *)
(* lookup (absent funds, absent fields) each of create_sunburst_table,       *)
(* create_summary_table, create_income_growth_allocation,                    *)
(* create_income_growth_table and aggregate_by_attribute returns a result    *)
(* and raises no error: every result is a complete table or map, none holds  *)
(* the outcome of a failed division, and the run ends with the export.       *)
C20_OperationsAreTotal ==
  /\ DetailedBuilt => IsResultTable(hierarchical_df, 6..7)
  /\ SummaryBuilt => IsResultTable(summary_df, 6..14)
  /\ AllocationBuilt =>
       \A m \in DOMAIN allocation_data :
         LET data == allocation_data[m][2]
         IN  /\ IsNumber(data.pct) /\ IsNumber(data.value)
             /\ \A k \in DOMAIN data.sub_assets :
                  IsNumber(data.sub_assets[k][2].pct) /\ IsNumber(data.sub_assets[k][2].value)
  /\ DonutsBuilt =>
       /\ \A m \in DOMAIN income_growth_agg : IsNumber(income_growth_agg[m][2])
       /\ \A m \in DOMAIN liquidity_agg : IsNumber(liquidity_agg[m][2])
  /\ CrossTabBuilt => IsResultTable(income_growth_table, 3..4)
  /\ pc = "done" => csv # None

\* all operations have returned for a map with a negative and a zero
\* percentage, a fund absent from the lookup and a total of 0
C20_Witness ==
  /\ pc = "done"
  /\ csv # None
  /\ total_portfolio_value = Zero
  /\ AbsentFunds # {}
  /\ \E i \in DOMAIN allocations_pct : RLt(allocations_pct[i][2], Zero)
  /\ \E i \in DOMAIN allocations_pct : allocations_pct[i][2] = Zero

\* main is about to call one of the four aggregation operations
AggregationSteps == {"detailed", "summary", "income_growth", "donuts"}

(* C21: every aggregation operation (create_sunburst_table,                  *)
(* create_summary_table, create_income_growth_allocation,                    *)
(* aggregate_by_attribute) leaves the allocation map and the classification  *)
(* lookup it was given unchanged: same keys, same order, same values after   *)
(* the call as before.                                                       *)
C21_AggregationLeavesInputsUnchanged ==
  [][(pc \in AggregationSteps) =>
       (allocations_pct' = allocations_pct /\ asset_classifications' = asset_classifications)]_vars

\* the four operations have returned for a map with a fund absent from the lookup
C21_Witness ==
  /\ pc = "income_table"
  /\ hierarchical_df # None /\ summary_df # None /\ allocation_data # None
  /\ liquidity_agg # None
  /\ AbsentFunds # {}
  /\ Len(allocations_pct) = 2

\* the frames the three sections of main return, before any tag is added
ExportedFrames ==
  <<create_sunburst_table(allocations_pct, total_portfolio_value, asset_classifications),
    create_summary_table(allocations_pct, total_portfolio_value, asset_classifications),
    create_income_growth_table(allocation_data)>>

(* C22: the CSV export is the concatenation, in this order, of the Detailed  *)
(* rows, the Summary rows and the cross-tab rows, one exported row per table *)
(* row, and its columns are exactly the columns of the three tables'         *)
(* schemas: displaying a table adds no column (such as 'RowType') to what is *)
(* exported.                                                                 *)
C22_ExportIsConcatenationOfTables ==
  pc = "done" /\ csv # None =>
    LET frames == ExportedFrames
    IN  /\ Len(csv.rows) = Len(frames[1].rows) + Len(frames[2].rows) + Len(frames[3].rows)
        /\ csv.columns = UnionColumns(SunburstColumns \o SummaryColumns \o IncomeGrowthColumns)
        /\ \A c \in DOMAIN csv.columns : csv.columns[c] # "RowType"
        /\ csv = ConcatFrames(frames)


(* ------------------ the percent-mode page's properties ---------------- *)
\* the sum of the stored percentages
StoredTotal == RSum(Values(assets))

\* the 'By Type' total the summary table shows for a category, 0 if it has no row
TypeTotal(category) ==
  LET by_type == classification_charts.summary_df.ByType
  IN  IF category \in DOMAIN by_type THEN by_type[category] ELSE Zero

\* the value the sunburst frame holds for an id, 0 if it has no row
SunburstValue(id) ==
  IF \E r \in DOMAIN sunburst_chart : sunburst_chart[r].ids = id
  THEN sunburst_chart[CHOOSE r \in DOMAIN sunburst_chart : sunburst_chart[r].ids = id].values
  ELSE Zero

(* C23: in percent mode percentages that do not sum to 100 are neither       *)
(* rejected nor renormalized: whenever the portfolio is non-empty the charts *)
(* and tables are built from the stored percentages unchanged, and a warning *)
(* is raised exactly when |sum - 100| > 0.01.                                *)
C23_PercentagesPassThrough ==
  assets # <<>> =>
    /\ classification_charts # None
    /\ sunburst_chart # None
    /\ Len(classification_charts.df) = Len(assets)
    /\ \A i \in DOMAIN assets :
         /\ classification_charts.df[i].Asset = assets[i][1]
         /\ classification_charts.df[i].Allocation = assets[i][2]
         /\ classification_charts.classification_df[i][1] = assets[i][1]
         /\ SunburstValue(assets[i][1]) = assets[i][2]
    /\ RAdd(TypeTotal("Traditional"), TypeTotal("Alternative")) = StoredTotal
    /\ RAdd(SunburstValue("Traditional"), SunburstValue("Alternative")) = StoredTotal
    /\ total_warning <=> ~RLe(RAbs(RSub(StoredTotal, Hundred)), Rat(1, 100))

\* two assets whose percentages sum to 150: the warning is shown and the charts
\* are built
C23_Witness ==
  /\ Len(assets) = 2
  /\ StoredTotal = IntR(150)
  /\ total_warning
  /\ classification_charts # None
  /\ SunburstValue(assets[1][1]) = assets[1][2]


(* C24: every operation resolves a fund absent from the lookup to the same   *)
(* stated defaults: create_income_growth_allocation and create_summary_table *)
(* give an absent fund liquidity "Illiquid", asset class "", sub-asset class *)
(* "" and income/growth "", exactly as create_sunburst_table does, so an     *)
(* absent fund lands in the cross-tab category " (Illiquid)".                *)
C24_AbsentFundSameDefaults ==
  /\ SummaryBuilt =>
       \A i \in AbsentFunds :
         \E r \in DOMAIN summary_df.rows :
           /\ SummaryNodeSeq[r] = <<"Sub-Asset Class", "Alternative", "", "", 0>>
           /\ summary_df.rows[r][4] = "" /\ summary_df.rows[r][5] = ""
  /\ AllocationBuilt =>
       \A i \in AbsentFunds :
         /\ Has(allocation_data, " (Illiquid)")
         /\ Has(At(allocation_data, " (Illiquid)").sub_assets, "")
         /\ ~Has(allocation_data, " ()")


\* the accumulator the first pass of create_summary_table leaves at a
\* sub-asset-class node of its nested dict
ClassGroupAt(classification_totals, node) ==
  At(At(At(classification_totals, node[2]), node[3]), node[4])

\* the sum over the funds in or below a node of allocationPct x metric / 100
ContributionUnder(node, metric) ==
  RSum([i \in DOMAIN allocations_pct |->
          IF Under(node, i)
          THEN RDiv(RMul(allocations_pct[i][2],
                         Attr(asset_classifications, FundAt(i), metric, Zero)), Hundred)
          ELSE Zero])

(* C25: after create_summary_table's first pass every sub-asset-class node   *)
(* holds exactly the sums over its funds of allocationPct (total_pct and     *)
(* total_weight, which are therefore equal), allocationDollars,              *)
(* allocationPct x yield / return / volatility, and allocationPct x yield /  *)
(* 100 and allocationPct x return / 100 (so contribution x 100 = weighted    *)
(* sum); each Classification row's totals are the sums of these fields over  *)
(* its sub-asset-class nodes.                                                *)
C25_FirstPassSums ==
  SummaryBuilt =>
    LET nodes == SummaryNodeSeq
        totals == SummaryTotals(allocations_pct, total_portfolio_value, asset_classifications)
    IN  \A r \in DOMAIN nodes :
          /\ nodes[r][1] = "Sub-Asset Class" =>
               LET g == ClassGroupAt(totals, nodes[r])
               IN  /\ g.total_pct = PctUnder(nodes[r])
                   /\ g.total_weight = g.total_pct
                   /\ g.total_value = DollarsUnder(nodes[r])
                   /\ g.weighted_yield = WeightedSumUnder(nodes[r], "Yield")
                   /\ g.weighted_return = WeightedSumUnder(nodes[r], "Return")
                   /\ g.weighted_volatility = WeightedSumUnder(nodes[r], "Volatility")
                   /\ g.yield_contribution = ContributionUnder(nodes[r], "Yield")
                   /\ g.return_contribution = ContributionUnder(nodes[r], "Return")
                   /\ RMul(g.yield_contribution, Hundred) = g.weighted_yield
                   /\ RMul(g.return_contribution, Hundred) = g.weighted_return
          /\ nodes[r][1] = "Classification" =>
               LET below == {s \in DOMAIN nodes : nodes[s][1] = "Sub-Asset Class"
                                                  /\ nodes[s][2] = nodes[r][2]}
                   Total(field) ==
                     RSum([s \in DOMAIN nodes |->
                             IF s \in below THEN ClassGroupAt(totals, nodes[s])[field] ELSE Zero])
               IN  /\ summary_df.rows[r][6] = Round2(Total("total_pct"))
                   /\ summary_df.rows[r][7] = Round2(Total("total_value"))
                   /\ summary_df.rows[r][13] = Round2(Total("yield_contribution"))
                   /\ summary_df.rows[r][14] = Round2(Total("return_contribution"))
                   /\ Total("total_pct") = PctUnder(nodes[r])
                   /\ Total("total_weight") = PctUnder(nodes[r])
                   /\ Total("weighted_yield") = WeightedSumUnder(nodes[r], "Yield")

\* two funds with different yields share a sub-asset-class node whose
\* classification has a second node
C25_Witness ==
  /\ SummaryBuilt
  /\ LET totals == SummaryTotals(allocations_pct, total_portfolio_value, asset_classifications)
     IN  \E r \in DOMAIN SummaryNodeSeq :
           /\ SummaryNodeSeq[r][1] = "Sub-Asset Class"
           /\ Cardinality(FundsUnder(SummaryNodeSeq[r])) = 2
           /\ ClassGroupAt(totals, SummaryNodeSeq[r]).weighted_yield # Zero
           /\ ClassGroupAt(totals, SummaryNodeSeq[r]).total_pct # Zero


\* the rows of the Detailed table that are not instrument rows, in row order
DetailedTreeRows ==
  LET nodes == DetailNodes
  IN  SelectSeq([r \in DOMAIN hierarchical_df.rows |-> r], LAMBDA r : nodes[r][1] # "Instrument")

\* the Classification, Asset Class and Sub-Asset Class cells of a row
TreeLabels(row) == <<row[1], row[2], row[3]>>

(* C26: the Detailed and Summary flatteners agree on the tree: for the same  *)
(* allocation map, total and lookup, create_sunburst_table and               *)
(* create_summary_table emit the same sequence of Classification, Asset      *)
(* Class and Sub-Asset Class labels in the same order, and each              *)
(* Classification row has the same allocation pct and dollar totals in both  *)
(* tables.                                                                   *)
C26_FlattenersAgreeOnTree ==
  SummaryBuilt =>
    LET tree == DetailedTreeRows
    IN  /\ Len(tree) = Len(summary_df.rows)
        /\ \A k \in DOMAIN tree :
             LET detailed == hierarchical_df.rows[tree[k]]
                 summary == summary_df.rows[k]
             IN  TreeLabels(detailed) = TreeLabels(summary)
        /\ \A k \in DOMAIN tree :
             DetailNodes[tree[k]][1] = "Classification" =>
               /\ hierarchical_df.rows[tree[k]][6] = summary_df.rows[k][6]
               /\ hierarchical_df.rows[tree[k]][7] = summary_df.rows[k][7]

\* both tables are built for two classifications, one of them the default of a
\* fund absent from the lookup; the Detailed table has its instrument rows besides
C26_Witness ==
  /\ SummaryBuilt
  /\ AbsentFunds # {}
  /\ Cardinality({r \in DOMAIN summary_df.rows : summary_df.rows[r][1] # ""}) = 2
  /\ Len(hierarchical_df.rows) = Len(summary_df.rows) + Len(allocations_pct)


\* every entry of the portfolio other than `name` is the same before and after
\* the step
OthersUnchanged(name) ==
  \A n \in ({assets[i][1] : i \in DOMAIN assets} \cup {assets'[i][1] : i \in DOMAIN assets'}) \ {name} :
    /\ Has(assets', n) <=> Has(assets, n)
    /\ Has(assets, n) => At(assets', n) = At(assets, n)

\* what one submission does to the session portfolio
C27_Submission ==
  /\ (event' = "Add Asset" /\ allocation' # Zero) =>
       /\ Has(assets', asset_name')
       /\ At(assets', asset_name') = allocation'
       /\ OthersUnchanged(asset_name')
  /\ (event' = "Add Asset" /\ allocation' = Zero) => assets' = assets
  /\ event' = "Remove Selected Asset" =>
       /\ Has(assets, asset_to_remove)
       /\ ~Has(assets', asset_to_remove)
       /\ OthersUnchanged(asset_to_remove)
  /\ event' = "" => assets' = assets

\* the session portfolio is a map with values in (0, 100]
C27_PortfolioIsMap ==
  /\ \A i, j \in DOMAIN assets : assets[i][1] = assets[j][1] => i = j
  /\ \A i \in DOMAIN assets : RLt(Zero, assets[i][2]) /\ RLe(assets[i][2], Hundred)

(* C27: in the percent-mode page, after any sequence of 'Add Asset' and      *)
(* 'Remove Selected Asset' submissions the session portfolio maps each asset *)
(* name to at most one allocation, which is the most recently submitted      *)
(* non-zero value for that name since its last removal (re-adding replaces,  *)
(* never accumulates); every stored value is > 0 and <= 100; a submission    *)
(* with allocation 0 leaves the portfolio unchanged; a removal deletes       *)
(* exactly the selected asset and leaves every other entry unchanged.        *)
C27_SessionPortfolio == []C27_PortfolioIsMap /\ [][C27_Submission]_vars

\* an asset was removed from a portfolio of two and the other is still held
\* with the value submitted for it
C27_Witness ==
  /\ event = "Remove Selected Asset"
  /\ Len(assets) = 1
  /\ assets[1][1] = asset_name
  /\ assets[1][2] = allocation


\* the row the sunburst frame holds for an id
SunburstRow(id) == sunburst_chart[CHOOSE r \in DOMAIN sunburst_chart : sunburst_chart[r].ids = id]

(* C28: for every asset a user can select on the percent-mode page, the      *)
(* Traditional/Alternative category used for the pie chart and               *)
(* classification table (classify_asset) equals the category used for the    *)
(* sunburst chart (ASSET_HIERARCHY[asset]['category']), so the two views of  *)
(* one portfolio report the same Traditional and Alternative totals.         *)
C28_ViewsAgreeOnCategory ==
  assets # <<>> =>
    /\ \A i \in DOMAIN assets :
         /\ classification_charts.df[i].Type = SunburstRow(assets[i][1]).top_category
         /\ classification_charts.classification_df[i][2] = SunburstRow(assets[i][1]).top_category
    /\ \A category \in {"Traditional", "Alternative"} :
         TypeTotal(category) = SunburstValue(category)

(* C29: in the income/growth table shown by main, the row-kind tagging gives *)
(* the 'Total' row the kind 'Total', every category header row the kind      *)
(* 'Header' and every sub-asset row the kind 'Normal', for every allocation  *)
(* data (including a sub-asset class whose label is blank).                  *)
C29_CrossTabRowKinds ==
  CrossTabBuilt =>
    LET rows == income_growth_table.rows
    IN  \A r \in DOMAIN rows :
          RowTypeOf(rows[r]) =
            IF r = Len(rows) THEN "Total"
            ELSE IF \E c \in DOMAIN category_order : rows[r][1] = category_order[c] THEN "Header"
            ELSE "Normal"


\* the first fund, in allocation-map order, that falls into a node
FirstFundUnder(node) ==
  FundAt(CHOOSE i \in FundsUnder(node) : \A j \in FundsUnder(node) : i <= j)

(* C30: in create_summary_table the 'Public vs Private' and 'Income/Growth'  *)
(* values shown on a sub-asset-class row are those of the first fund, in     *)
(* allocation-map order, that falls into that node; funds added to the node  *)
(* later change its numeric totals but never these two labels, even when     *)
(* their own labels differ.                                                  *)
C30_FirstFundLabelsTheNode ==
  SummaryBuilt =>
    LET nodes == SummaryNodeSeq
    IN  \A r \in DOMAIN nodes : nodes[r][1] = "Sub-Asset Class" =>
          /\ summary_df.rows[r][4]
               = Attr(asset_classifications, FirstFundUnder(nodes[r]), "PublicPrivate", "")
          /\ summary_df.rows[r][5]
               = Attr(asset_classifications, FirstFundUnder(nodes[r]), "IncomeGrowth", "")
          /\ summary_df.rows[r][6] = Round2(PctUnder(nodes[r]))

\* a sub-asset-class row built from two funds whose labels differ, the later
\* one with an allocation that is not 0
C30_Witness ==
  /\ SummaryBuilt
  /\ \E r \in DOMAIN SummaryNodeSeq :
       /\ SummaryNodeSeq[r][1] = "Sub-Asset Class"
       /\ \E i, j \in FundsUnder(SummaryNodeSeq[r]) :
            /\ i < j
            /\ allocations_pct[j][2] # Zero
            /\ Attr(asset_classifications, FundAt(i), "PublicPrivate", "")
                 # Attr(asset_classifications, FundAt(j), "PublicPrivate", "")
            /\ Attr(asset_classifications, FundAt(i), "IncomeGrowth", "")
                 # Attr(asset_classifications, FundAt(j), "IncomeGrowth", "")
            /\ summary_df.rows[r][4] = Attr(asset_classifications, FundAt(i), "PublicPrivate", "")


====
